---------------------------- MODULE Spec2Model ----------------------------
(***************************************************************************)
(* A model of src/main.cpp: the single Game object of main(), its frame    *)
(* loop (Run: Update then Draw until the window closes or shouldExit) and  *)
(* its destructor.                                                         *)
(*                                                                         *)
(* One step of the model is one whole frame (Game::Update with everything  *)
(* it calls) or the end of the loop (with ~Game).  Draw changes no state   *)
(* and is not modelled;                                                    *)
(* showControllerDebug, isWayland and the sound handle are read by Draw    *)
(* and the audio backend only and are left out.                            *)
(*                                                                         *)
(* float values are fixed-point integers: a value v is the integer v * FP. *)
(* A division rounds to the nearest representable value, as a float        *)
(* operation does; every other operation used here is exact on the values  *)
(* the model draws.                                                        *)
(***************************************************************************)
EXTENDS Integers, Sequences, FiniteSets, TLC

VARIABLES
    game,   \* the fields of the Game object (main.cpp:54-116)
    sys,    \* what the window, input and file backends hold between frames
    obs,    \* what the last step did: a trace of the handler, read by the properties only
    pc      \* "running" (in Run's loop), "waiting" (in the EndDrawing() calls of
            \* HandleMenuClick, main.cpp:684-689), "done" (after ~Game), "crashed"

vars == <<game, sys, obs, pc>>

---------------------------------------------------------------------------
(* Numbers *)

FP == 10 ^ 5

MonitorW == 1920
MonitorH == 1080
WindowedW == 1280
WindowedH == 720
DefaultFPS == 120
ResizeFrames == 10
WaitPolls == 6
AxisMax == 32767
Deadzone == 8000

\* bounds of the model
MaxActive == 2          \* signals of ChordAtoms that are active in one frame
MaxToggles == 1         \* fullscreen toggles in one run
FrameMillis == 3000     \* GetFrameTime() of a frame, in milliseconds
MaxFrames == 6          \* frames in one run

Monitor == <<MonitorW, MonitorH>>
Windowed == <<WindowedW, WindowedH>>
Sizes == {Monitor, Windowed}

Clamp(v, lo, hi) == IF v < lo THEN lo ELSE IF hi < v THEN hi ELSE v

Abs(v) == IF v < 0 THEN -v ELSE v

\* a / b rounded to the nearest integer, halves away from zero (b > 0)
DivRound(a, b) == IF a >= 0 THEN (2 * a + b) \div (2 * b)
                            ELSE -((2 * (-a) + b) \div (2 * b))

---------------------------------------------------------------------------
(* The three menu lists (InitializeMenus) *)

Lists == {"main", "settings", "pause"}

MenuTexts == [main     |-> <<"Start Game", "Settings", "Save Game", "Exit">>,
              settings |-> <<"Volume", "Toggle Fullscreen", "Back to Menu">>,
              pause    |-> <<"Resume", "Save Game", "Main Menu">>]

Size(list) == Len(MenuTexts[list])

\* menuItems[i].text for an index inside the vector (i counts from 0)
Text(list, i) == MenuTexts[list][i + 1]

\* the bounds InitializeMenus gives entry i of a list in a window of size dims
Bounds(dims, list, i) ==
    LET winW == dims[1]
        winH == dims[2]
        buttonWidth == winW * (FP \div 100) * 20
        buttonHeight == winH * (FP \div 100) * 6
        buttonSpacing == winH * (FP \div 100) * 2
        n == Size(list)
        totalHeight == n * buttonHeight + (n - 1) * buttonSpacing
        startY == (winH * FP) \div 2 - totalHeight \div 2
        centerX == (winW * FP) \div 2 - buttonWidth \div 2
    IN  [x |-> centerX, y |-> startY + i * (buttonHeight + buttonSpacing),
         width |-> buttonWidth, height |-> buttonHeight]

\* raylib's CheckCollisionPointRec
CheckCollisionPointRec(point, rec) ==
    /\ point[1] >= rec.x
    /\ point[1] < rec.x + rec.width
    /\ point[2] >= rec.y
    /\ point[2] < rec.y + rec.height

\* the on-screen minus and plus targets of the Volume entry
MinusBtn(b) ==
    LET btnSize == (b.height * 7) \div 10
    IN  [x |-> b.x + 8 * FP, y |-> b.y + b.height \div 2 - btnSize \div 2,
         width |-> btnSize, height |-> btnSize]

PlusBtn(b) ==
    LET btnSize == (b.height * 7) \div 10
    IN  [x |-> b.x + b.width - btnSize - 8 * FP,
         y |-> b.y + b.height \div 2 - btnSize \div 2,
         width |-> btnSize, height |-> btnSize]

Centre(rec) == <<rec.x + rec.width \div 2, rec.y + rec.height \div 2>>

---------------------------------------------------------------------------
(* The input of one frame.                                                 *)
(*                                                                         *)
(* in.atoms is the set of signals that are active in the frame, in.mouse   *)
(* is GetMousePosition() when the frame begins, in.late is                 *)
(* GetMousePosition() after the EndDrawing() calls of a step that waits    *)
(* (in.mouse again if the pointer rests meanwhile, and never read by a     *)
(* step that does not wait) and in.dt is GetFrameTime() in milliseconds.   *)
(* K_x: IsKeyPressed(x) (and so IsKeyDown(x)); H_x: IsKeyDown(x) of a key  *)
(* held since an earlier frame;                                            *)
(* M_x: the mouse; P_x: SDL_GameControllerGetButton(x); S_x: the left      *)
(* stick pushed fully in a direction; E_x: an SDL event in the queue;      *)
(* X_x: what the environment answers in this frame; L_x: the key or mouse   *)
(* button x goes down while the step waits in EndDrawing() and the last    *)
(* poll of the wait delivers it (a step that does not wait never sees it). *)

KeyAtoms == {"K_ESC", "K_M", "K_UP", "K_DOWN", "K_W", "K_S", "K_ENTER", "K_SPACE",
             "K_LEFT", "K_RIGHT", "K_A", "K_D", "K_OTHER"}
HeldAtoms == {"H_W", "H_S", "H_A", "H_D"}
MouseAtoms == {"M_LEFT", "M_RIGHT", "M_MOVE"}
PadAtoms == {"P_DUP", "P_DDOWN", "P_DLEFT", "P_DRIGHT", "P_A", "P_B", "P_START", "P_BACK"}
StickAtoms == {"S_UP", "S_DOWN", "S_LEFT", "S_RIGHT"}
EventAtoms == {"E_AXIS", "E_BUTTON"}
EnvAtoms == {"X_WFAIL",     \* the save file cannot be opened for writing
             "X_NORESIZE",  \* a requested window size is not in effect yet
             "X_OOBCRASH"}  \* a read past the end of a menu vector faults

\* what arrives during a wait, and what it is read as afterwards
Late == {<<"L_ESC", "K_ESC">>, <<"L_M", "K_M">>, <<"L_UP", "K_UP">>,
         <<"L_DOWN", "K_DOWN">>, <<"L_W", "K_W">>, <<"L_S", "K_S">>,
         <<"L_ENTER", "K_ENTER">>, <<"L_SPACE", "K_SPACE">>, <<"L_LEFT", "K_LEFT">>,
         <<"L_RIGHT", "K_RIGHT">>, <<"L_A", "K_A">>, <<"L_D", "K_D">>,
         <<"L_OTHER", "K_OTHER">>, <<"L_MLEFT", "M_LEFT">>, <<"L_MRIGHT", "M_RIGHT">>}
LateAtoms == {l[1] : l \in Late}

AllAtoms == KeyAtoms \cup HeldAtoms \cup MouseAtoms \cup PadAtoms \cup StickAtoms
            \cup EventAtoms \cup EnvAtoms \cup LateAtoms

IsKeyPressed(in, k) == k \in in.atoms

AnyKeyPressed(in) == in.atoms \cap KeyAtoms # {}

\* What raylib reports after the EndDrawing() calls in the middle of a step
\* (main.cpp:684-689): each call swaps the buffers, waits for the frame time
\* and polls the input events. A key or mouse button pressed when the step
\* began is no longer "pressed" (the key is still down) and the mouse delta
\* is zero; what the last poll delivered is pressed now. The keys held
\* since an earlier frame, what SDL reports of the controller and the
\* environment are as before.
PollInputEvents(in) ==
    LET delivered == {l[2] : l \in {m \in Late : m[1] \in in.atoms}}
        down == {h[2] : h \in {k \in {<<"K_W", "H_W">>, <<"K_S", "H_S">>,
                                       <<"K_A", "H_A">>, <<"K_D", "H_D">>} :
                                  k[1] \in in.atoms \ delivered}}
    IN  [in EXCEPT !.atoms = (@ \ (KeyAtoms \cup MouseAtoms \cup LateAtoms))
                             \cup down \cup delivered]

Button(in, b) == b \in in.atoms

\* SDL_GameControllerGetAxis of the left stick
LeftX(in) == IF "S_LEFT" \in in.atoms THEN -AxisMax
             ELSE IF "S_RIGHT" \in in.atoms THEN AxisMax ELSE 0

LeftY(in) == IF "S_UP" \in in.atoms THEN -AxisMax
             ELSE IF "S_DOWN" \in in.atoms THEN AxisMax ELSE 0

\* the sets of atoms that can be active together
Consistent(a) ==
    /\ ~({"S_UP", "S_DOWN"} \subseteq a)
    /\ ~({"S_LEFT", "S_RIGHT"} \subseteq a)
    /\ ~({"K_W", "H_W"} \subseteq a) /\ ~({"K_S", "H_S"} \subseteq a)
    /\ ~({"K_A", "H_A"} \subseteq a) /\ ~({"K_D", "H_D"} \subseteq a)

\* the subsets of an alphabet with at most k members
RECURSIVE UpTo(_, _)
UpTo(alphabet, k) ==
    IF k = 0 THEN {{}}
    ELSE LET smaller == UpTo(alphabet, k - 1)
         IN  smaller \cup {a \cup {x} : <<a, x>> \in smaller \X alphabet}

AtomSets(alphabet, k) == {a \in UpTo(alphabet, k) : Consistent(a)}

\* the points the pointer is moved to: the centre of every entry of every
\* list in every window size, and a point outside every entry
Points == {Centre(Bounds(d, l, i)) : <<d, l, i>> \in
              {<<d, l, i>> \in Sizes \X Lists \X (0 .. 3) : i < Size(l)}}
          \cup {<<0, 0>>}

---------------------------------------------------------------------------
(* The state a handler works on: the fields of game, sys and obs in one    *)
(* record, so that a handler is a function from records to records.        *)

Trackers == {"dPadUpPressed", "dPadDownPressed", "aButtonPressed", "bButtonPressed",
             "startButtonPressed", "backButtonPressed", "analogUpPressed",
             "analogDownPressed", "dPadLeftPressedVol", "dPadRightPressedVol"}

\* SaveData::SaveData
DefaultSaveData ==
    [playerPos |-> <<FP \div 10, FP \div 10>>, isFullscreen |-> TRUE,
     targetFPS |-> DefaultFPS, inputMode |-> "KEYBOARD_MOUSE", volume |-> FP \div 2]

NoFlags == [l \in Lists |-> {}]

\* one more event in the trace of the step
Fired(s, tag) == [s EXCEPT !.fired = @ \cup {tag}]

\* a variant that never resets buttonState
IsButtonJustPressedNoReset(buttonState, currentState) ==
    IF currentState /\ ~buttonState THEN [ret |-> TRUE, state |-> TRUE]
    ELSE [ret |-> FALSE, state |-> buttonState]

\* IsButtonJustPressed(buttonState, currentState): the value returned and
\* the value left in buttonState
IsButtonJustPressed(buttonState, currentState) ==
    IF currentState /\ ~buttonState THEN [ret |-> TRUE, state |-> TRUE]
    ELSE IF ~currentState THEN [ret |-> FALSE, state |-> FALSE]
    ELSE [ret |-> FALSE, state |-> buttonState]

\* IsAnalogDirectionJustPressed(directionState, axisValue, threshold), the
\* axis value and the threshold in units of 1 / AxisMax
IsAnalogDirectionJustPressed(directionState, axisValue, threshold) ==
    IsButtonJustPressed(directionState, Abs(axisValue) > threshold)

\* analogStickThreshold = 0.5f, in units of 1 / AxisMax
AnalogStickThreshold == AxisMax \div 2

\* a call of IsButtonJustPressed on the tracker field f of s: the value
\* returned (r) and the record after the call (s)
JustPressed(s, f, raw) ==
    LET res == IsButtonJustPressed(s[f], raw)
    IN  [r |-> res.ret, s |-> [s EXCEPT ![f] = res.state]]

AnalogJustPressed(s, f, axisValue) ==
    LET res == IsAnalogDirectionJustPressed(s[f], axisValue, AnalogStickThreshold)
    IN  [r |-> res.ret, s |-> [s EXCEPT ![f] = res.state]]

\* a variant that reads the button without looking for a controller
PadJustPressedUnguarded(s, in, f, b) == JustPressed(s, f, Button(in, b))

\* "controller && IsButtonJustPressed(tracker, button)": the tracker is
\* read and written only with a controller
PadJustPressed(s, in, f, b) ==
    IF s.controller THEN JustPressed(s, f, Button(in, b)) ELSE [r |-> FALSE, s |-> s]

---------------------------------------------------------------------------
(* Persistence *)

\* a variant that stores the fraction in tenths
RelativeOfTenths(pos, extent) ==
    Clamp(DivRound(pos, extent * (FP \div 10)) * (FP \div 10), 0, FP)

\* the relative coordinate SaveGame stores for an absolute one
RelativeOf(pos, extent) == Clamp(DivRound(pos, extent), 0, FP)

\* a variant that stores the position in pixels
SavedRecordAbsolute(s) ==
    [playerPos |-> <<s.playerPos[1], s.playerPos[2]>>,
     isFullscreen |-> s.isFullscreen, targetFPS |-> s.targetFPS,
     inputMode |-> s.currentInputMode, volume |-> s.volume]

\* the record SaveGame fills in
SavedRecord(s) ==
    [playerPos |-> <<RelativeOf(s.playerPos[1], s.screen[1]),
                     RelativeOf(s.playerPos[2], s.screen[2])>>,
     isFullscreen |-> s.isFullscreen, targetFPS |-> s.targetFPS,
     inputMode |-> s.currentInputMode, volume |-> s.volume]

\* a variant that confirms a save whether or not the file was written
SaveGameAlwaysConfirms(s, fileOpens) ==
    LET rec == SavedRecord(s)
        s1 == [s EXCEPT !.saveData = rec, !.saves = @ + 1,
                        !.showSavePopup = TRUE, !.savePopupTimer = 2 * FP]
    IN  IF fileOpens
        THEN [s1 EXCEPT !.file = [exists |-> TRUE, data |-> rec], !.writes = @ + 1]
        ELSE s1

\* Game::SaveGame; fileOpens: whether the ofstream opens
SaveGame(s, fileOpens) ==
    LET rec == SavedRecord(s)
        s1 == [s EXCEPT !.saveData = rec, !.saves = @ + 1]
    IN  IF fileOpens
        THEN [s1 EXCEPT !.file = [exists |-> TRUE, data |-> rec], !.writes = @ + 1,
                        !.showSavePopup = TRUE, !.savePopupTimer = 2 * FP]
        ELSE s1

FileOpens(in) == "X_WFAIL" \notin in.atoms

\* a variant that leaves the player where it is
SetPlayerPositionKept(s) == s

\* Game::SetPlayerPositionFromSave
SetPlayerPositionFromSave(s) ==
    LET screenW == s.screen[1] * FP
        screenH == s.screen[2] * FP
        playerSize == s.screen[1] * (FP \div 100) * 3
        x == (s.saveData.playerPos[1] * s.screen[1])
        y == (s.saveData.playerPos[2] * s.screen[2])
    IN  [s EXCEPT !.playerPos = <<Clamp(x, 0, screenW - playerSize),
                                  Clamp(y, 0, screenH - playerSize)>>]

\* Game::InitializeMenus: the three lists are built anew for the window size
InitializeMenus(s) ==
    [s EXCEPT !.menuDims = s.screen, !.isHovered = NoFlags, !.isSelected = NoFlags]

---------------------------------------------------------------------------
(* Game::CheckInputMode *)

MouseMoving(in) == "M_MOVE" \in in.atoms

\* a variant that falls back to the keyboard and the mouse in a frame
\* without events and without activity
CheckInputModeDefaults(s, in) ==
    LET kmActivity == \/ "M_LEFT" \in in.atoms \/ "M_RIGHT" \in in.atoms
                      \/ MouseMoving(in) \/ AnyKeyPressed(in)
        padEvent == s.controller /\ (in.atoms \cap EventAtoms # {})
    IN  [s EXCEPT !.currentInputMode =
            IF padEvent /\ ~kmActivity THEN "CONTROLLER" ELSE "KEYBOARD_MOUSE"]

\* a variant whose pointer motion shows the pointer and leaves the
\* navigation flag as it is
CheckInputModeKeepsFlag(s, in) ==
    LET previousInputMode == s.currentInputMode
        padEvent == s.controller /\ (in.atoms \cap EventAtoms # {})
        kmActivity == \/ "M_LEFT" \in in.atoms \/ "M_RIGHT" \in in.atoms
                      \/ MouseMoving(in) \/ AnyKeyPressed(in)
        mode == IF kmActivity THEN "KEYBOARD_MOUSE"
                ELSE IF padEvent THEN "CONTROLLER" ELSE previousInputMode
        s1 == [s EXCEPT !.currentInputMode = mode]
        s2 == IF previousInputMode # mode
              THEN [s1 EXCEPT !.cursorHidden = (mode = "CONTROLLER")]
              ELSE s1
    IN  IF mode = "KEYBOARD_MOUSE"
        THEN IF MouseMoving(in)
             THEN [s2 EXCEPT !.cursorHidden = FALSE]
             ELSE IF s2.keyboardControllerNavigationUsed
                  THEN [s2 EXCEPT !.cursorHidden = TRUE]
                  ELSE s2
        ELSE s2

CheckInputMode(s, in) ==
    LET previousInputMode == s.currentInputMode
        padEvent == s.controller /\ (in.atoms \cap EventAtoms # {})
        kmActivity == \/ "M_LEFT" \in in.atoms \/ "M_RIGHT" \in in.atoms
                      \/ MouseMoving(in) \/ AnyKeyPressed(in)
        mode == IF kmActivity THEN "KEYBOARD_MOUSE"
                ELSE IF padEvent THEN "CONTROLLER" ELSE previousInputMode
        s1 == [s EXCEPT !.currentInputMode = mode]
        s2 == IF previousInputMode # mode
              THEN [s1 EXCEPT !.cursorHidden = (mode = "CONTROLLER"),
                              !.keyboardControllerNavigationUsed =
                                  IF mode = "KEYBOARD_MOUSE" THEN FALSE ELSE @]
              ELSE s1
    IN  IF mode = "KEYBOARD_MOUSE"
        THEN IF MouseMoving(in)
             THEN [s2 EXCEPT !.cursorHidden = FALSE,
                             !.keyboardControllerNavigationUsed = FALSE]
             ELSE IF s2.keyboardControllerNavigationUsed
                  THEN [s2 EXCEPT !.cursorHidden = TRUE]
                  ELSE s2
        ELSE s2

---------------------------------------------------------------------------
(* Game::HandleMenuClick *)

\* SetWindowSize and the three frames that pump the window's events: the
\* size asked for is in effect afterwards, or not yet
RequestWindowSize(s, in, dims) ==
    IF "X_NORESIZE" \in in.atoms THEN s ELSE [s EXCEPT !.screen = dims]

\* a variant that does not ask for the menus to be rebuilt
ToggleFullscreenNoRebuild(s, in) ==
    LET s1 == IF s.isFullscreen
              THEN RequestWindowSize(s, in, Windowed)
              ELSE [s EXCEPT !.pendingFullscreenResize = TRUE,
                             !.fullscreenResizeFrames = ResizeFrames]
        shown == [s1 EXCEPT !.isFullscreen = ~s.isFullscreen, !.toggles = @ + 1]
    IN  CHOOSE r \in {SetPlayerPositionFromSave(
                          [w EXCEPT !.mouse = in.late, !.held = Append(@, w)]) :
                         w \in {shown}} : TRUE

\* the "Toggle Fullscreen" branch of HandleMenuClick; held records what the
\* program is while the six EndDrawing() calls present frames and poll the
\* events (the mode is switched, the player and the layout are not yet
\* restored); afterwards the pointer is where the calls leave it
ToggleFullscreen(s, in) ==
    LET s1 == IF s.isFullscreen
              THEN RequestWindowSize(s, in, Windowed)
              ELSE [s EXCEPT !.pendingFullscreenResize = TRUE,
                             !.fullscreenResizeFrames = ResizeFrames]
        shown == [s1 EXCEPT !.isFullscreen = ~s.isFullscreen, !.toggles = @ + 1]
    IN  CHOOSE r \in {[SetPlayerPositionFromSave(
                           [w EXCEPT !.mouse = in.late, !.held = Append(@, w)])
                          EXCEPT !.forceMenuRecalc = TRUE] : w \in {shown}} : TRUE

\* the input that the rest of the step reads after a call of
\* HandleMenuClick that led from state before to state after: the one the
\* step began with, unless the call went through "Toggle Fullscreen", whose
\* EndDrawing() calls have polled the input events
InputAfter(before, after, in) ==
    IF after.toggles # before.toggles THEN PollInputEvents(in) ELSE in

\* a variant whose pause list's "Save Game" returns to the pause screen
\* without saving
HandleMenuClickNoPauseSave(s0, in, itemText) ==
    LET s == [s0 EXCEPT !.acts = Append(@, <<s0.currentState, itemText>>)]
    IN  CASE s.currentState = "MENU" ->
               ( CASE itemText = "Start Game" ->
                        [SetPlayerPositionFromSave(s) EXCEPT !.currentState = "PLAYING"]
                   [] itemText = "Settings" -> [s EXCEPT !.currentState = "SETTINGS"]
                   [] itemText = "Save Game" -> SaveGame(s, FileOpens(in))
                   [] itemText = "Exit" ->
                        [SaveGame(s, FileOpens(in)) EXCEPT !.shouldExit = TRUE]
                   [] OTHER -> s )
          [] s.currentState = "SETTINGS" ->
               ( CASE itemText = "Toggle Fullscreen" -> ToggleFullscreen(s, in)
                   [] itemText = "Back to Menu" ->
                        [SaveGame(s, FileOpens(in)) EXCEPT !.currentState = "MENU"]
                   [] OTHER -> s )
          [] s.currentState = "PAUSED" ->
               ( CASE itemText = "Resume" -> [s EXCEPT !.currentState = "PLAYING"]
                   [] itemText = "Main Menu" ->
                        [SaveGame(s, FileOpens(in)) EXCEPT !.currentState = "MENU"]
                   [] OTHER -> s )
          [] OTHER -> s

HandleMenuClick(s0, in, itemText) ==
    LET s == [s0 EXCEPT !.acts = Append(@, <<s0.currentState, itemText>>)]
    IN  CASE s.currentState = "MENU" ->
               ( CASE itemText = "Start Game" ->
                        [SetPlayerPositionFromSave(s) EXCEPT !.currentState = "PLAYING"]
                   [] itemText = "Settings" -> [s EXCEPT !.currentState = "SETTINGS"]
                   [] itemText = "Save Game" -> SaveGame(s, FileOpens(in))
                   [] itemText = "Exit" ->
                        [SaveGame(s, FileOpens(in)) EXCEPT !.shouldExit = TRUE]
                   [] OTHER -> s )
          [] s.currentState = "SETTINGS" ->
               ( CASE itemText = "Toggle Fullscreen" -> ToggleFullscreen(s, in)
                   [] itemText = "Back to Menu" ->
                        [SaveGame(s, FileOpens(in)) EXCEPT !.currentState = "MENU"]
                   [] OTHER -> s )
          [] s.currentState = "PAUSED" ->
               ( CASE itemText = "Resume" -> [s EXCEPT !.currentState = "PLAYING"]
                   [] itemText = "Save Game" -> SaveGame(s, FileOpens(in))
                   [] itemText = "Main Menu" ->
                        [SaveGame(s, FileOpens(in)) EXCEPT !.currentState = "MENU"]
                   [] OTHER -> s )
          [] OTHER -> s

---------------------------------------------------------------------------
(* Game::UpdateMenu *)

\* the volumes 0.325, 0.525 and 0.775: the float (volume - 0.05f) * 20.0f
\* is just below the half that the real numbers reach, and roundf takes
\* it down; every other multiple of 0.00001 in [0,1] rounds in float as
\* in the reals, a half away from zero
BelowHalf == {13 * (FP \div 40), 21 * (FP \div 40), 31 * (FP \div 40)}

\* a variant that does not snap to a multiple of 0.05
AdjustVolumeUnsnapped(s, in, delta) ==
    LET clamped == Clamp(s.volume + delta, 0, FP)
    IN  SaveGame([s EXCEPT !.volume = clamped, !.masterVolume = clamped,
                           !.adjusts = Append(@, delta)], FileOpens(in))

\* a variant that leaves the saving to a later save
AdjustVolumeUnsaved(s, in, delta) ==
    LET clamped == Clamp(s.volume + delta, 0, FP)
        nearest == DivRound(clamped * 20, FP)
        rounded == IF delta < 0 /\ s.volume \in BelowHalf THEN nearest - 1 ELSE nearest
        snapped == rounded * (FP \div 20)
    IN  [s EXCEPT !.volume = snapped, !.masterVolume = snapped,
                  !.adjusts = Append(@, delta)]

\* one volume adjustment: clamp, snap to a multiple of 0.05 with
\* roundf(volume * 20.0f) / 20.0f, apply, save (the trace notes the step
\* asked for)
AdjustVolume(s, in, delta) ==
    LET clamped == Clamp(s.volume + delta, 0, FP)
        nearest == DivRound(clamped * 20, FP)
        rounded == IF delta < 0 /\ s.volume \in BelowHalf THEN nearest - 1 ELSE nearest
        snapped == rounded * (FP \div 20)
    IN  SaveGame([s EXCEPT !.volume = snapped, !.masterVolume = snapped,
                           !.adjusts = Append(@, delta)], FileOpens(in))

VolumeStep == FP \div 20

\* the comparison menuItems[selectedMenuItem].text == "Volume" of
\* main.cpp:531 and :629, which reads the vector without a bounds check:
\* "yes", "no", or, for a read past the end, "crash" when the read faults
\* and "no" when it finds a string that is not "Volume"
VolumeSelected(s, in, list) ==
    IF s.selectedMenuItem < Size(list)
    THEN IF Text(list, s.selectedMenuItem) = "Volume" THEN "yes" ELSE "no"
    ELSE IF "X_OOBCRASH" \in in.atoms THEN "crash" ELSE "no"

\* the trace notes a read past the end of the vector
NoteRead(s, list) ==
    IF s.selectedMenuItem < Size(list) THEN s ELSE Fired(s, "OOB")

\* a variant that rebuilds on forceMenuRecalc only, without comparing the
\* window with the last layout
RebuildIfForced(s, force) ==
    IF force /\ s.forceMenuRecalc
    THEN [InitializeMenus(s) EXCEPT
              !.forceMenuRecalc = FALSE,
              !.lastWindowWidth = s.screen[1], !.lastWindowHeight = s.screen[2]]
    ELSE s

\* the rebuild at the top of UpdateMenu (force: forceMenuRecalc is read)
RebuildIfResized(s, force) ==
    IF \/ force /\ s.forceMenuRecalc
       \/ s.screen[1] # s.lastWindowWidth
       \/ s.screen[2] # s.lastWindowHeight
    THEN [InitializeMenus(s) EXCEPT
              !.forceMenuRecalc = IF force THEN FALSE ELSE @,
              !.lastWindowWidth = s.screen[1], !.lastWindowHeight = s.screen[2]]
    ELSE s

ClearFlags(s, list) ==
    [s EXCEPT !.isHovered[list] = {}, !.isSelected[list] = {}]

KeyboardUsed(in) ==
    \/ IsKeyPressed(in, "K_DOWN") \/ IsKeyPressed(in, "K_S")
    \/ IsKeyPressed(in, "K_UP") \/ IsKeyPressed(in, "K_W")
    \/ IsKeyPressed(in, "K_ENTER") \/ IsKeyPressed(in, "K_SPACE")

\* a variant whose click activates the selected entry, not the hovered one
RECURSIVE HoverLoopTakesSelected(_, _, _, _, _, _)
HoverLoopTakesSelected(s, in, list, i, used, volumeTargets) ==
    IF i >= Size(list) THEN [s |-> s, used |-> used]
    ELSE
      LET hovered == CheckCollisionPointRec(in.mouse, Bounds(s.menuDims, list, i))
          click == "M_LEFT" \in in.atoms
          s1 == [s EXCEPT !.isHovered[list] =
                              IF hovered THEN @ \cup {i} ELSE @ \ {i}]
          s4 == IF hovered /\ click
                THEN HandleMenuClick(s1, in, Text(list, s1.selectedMenuItem % Size(list)))
                ELSE s1
      IN  CHOOSE r \in { HoverLoopTakesSelected(next, InputAfter(s, next, in), list,
                                    i + 1, used \/ (hovered /\ click), volumeTargets)
                          : next \in {s4} } : TRUE

\* one pass of the hover loop of UpdateMenu (volumeTargets) and of
\* UpdatePaused, from entry i on; r.used is mouseUsed
RECURSIVE HoverLoop(_, _, _, _, _, _)
HoverLoop(s, in, list, i, used, volumeTargets) ==
    IF i >= Size(list) THEN [s |-> s, used |-> used]
    ELSE
      LET b == Bounds(s.menuDims, list, i)
          hovered == CheckCollisionPointRec(in.mouse, b)
          click == "M_LEFT" \in in.atoms
          \* (the trace notes a test against bounds that were laid out for
          \* another size than the window has by now)
          s1 == [s EXCEPT !.isHovered[list] =
                              IF hovered THEN @ \cup {i} ELSE @ \ {i},
                          !.fired = IF s.menuDims = s.screen THEN @
                                    ELSE @ \cup {"OLDSIZE"}]
          onVolume == volumeTargets /\ s1.currentState = "SETTINGS"
                      /\ Text(list, i) = "Volume"
          s2 == IF onVolume /\ CheckCollisionPointRec(in.mouse, MinusBtn(b)) /\ click
                THEN AdjustVolume(s1, in, -VolumeStep) ELSE s1
          s3 == IF onVolume /\ CheckCollisionPointRec(in.mouse, PlusBtn(b)) /\ click
                THEN AdjustVolume(s2, in, VolumeStep) ELSE s2
          s4 == IF hovered /\ click THEN HandleMenuClick(s3, in, Text(list, i)) ELSE s3
      \* (next: the record after entry i, worked out once)
      IN  CHOOSE r \in { HoverLoop(next, InputAfter(s, next, in), list, i + 1,
                                    used \/ (hovered /\ click), volumeTargets)
                          : next \in {s4} } : TRUE

MoveDown(s, list) ==
    [s EXCEPT !.selectedMenuItem = (@ + 1) % Size(list)]

\* a variant that stops at the first entry instead of wrapping
MoveUpStops(s, list) ==
    [s EXCEPT !.selectedMenuItem = IF @ = 0 THEN 0 ELSE @ - 1]

MoveUp(s, list) ==
    [s EXCEPT !.selectedMenuItem = (@ - 1 + Size(list)) % Size(list)]

\* "if (selectedMenuItem >= 0 && selectedMenuItem < menuItems.size())"
InRange(s, list) == s.selectedMenuItem >= 0 /\ s.selectedMenuItem < Size(list)

MarkSelected(s, list) ==
    IF InRange(s, list) THEN [s EXCEPT !.isSelected[list] = @ \cup {s.selectedMenuItem}]
    ELSE s

ActivateSelected(s, in, list) ==
    IF InRange(s, list) THEN HandleMenuClick(s, in, Text(list, s.selectedMenuItem))
    ELSE s

\* a variant that marks the selected entry whether or not the navigation
\* flag is set
KeyboardNavigationAlwaysMarks(s, in, list) ==
    LET keys == s.keyboardControllerNavigationUsed
        s1 == IF keys /\ (IsKeyPressed(in, "K_DOWN") \/ IsKeyPressed(in, "K_S"))
              THEN MoveDown(s, list) ELSE s
        s2 == IF keys /\ (IsKeyPressed(in, "K_UP") \/ IsKeyPressed(in, "K_W"))
              THEN MoveUp(s1, list) ELSE s1
        s3 == MarkSelected(s2, list)
    IN  IF keys /\ (IsKeyPressed(in, "K_ENTER") \/ IsKeyPressed(in, "K_SPACE"))
        THEN ActivateSelected(s3, in, list) ELSE s3

\* the keyboard navigation block shared by UpdateMenu and UpdatePaused
KeyboardNavigation(s, in, list) ==
    IF ~s.keyboardControllerNavigationUsed THEN s
    ELSE
      LET s1 == IF IsKeyPressed(in, "K_DOWN") \/ IsKeyPressed(in, "K_S")
                THEN MoveDown(s, list) ELSE s
          s2 == IF IsKeyPressed(in, "K_UP") \/ IsKeyPressed(in, "K_W")
                THEN MoveUp(s1, list) ELSE s1
          s3 == MarkSelected(s2, list)
      IN  IF IsKeyPressed(in, "K_ENTER") \/ IsKeyPressed(in, "K_SPACE")
          THEN ActivateSelected(s3, in, list) ELSE s3

\* "Volume adjustment with keyboard (A/D/Left/Right) when selected"
\* a variant that does not look at the selection
KeyboardVolumeAnySelection(s, in, list) ==
    IF s.currentState # "SETTINGS" THEN s
    ELSE
      LET left == IsKeyPressed(in, "K_LEFT") \/ IsKeyPressed(in, "K_A")
          right == IsKeyPressed(in, "K_RIGHT") \/ IsKeyPressed(in, "K_D")
          s1 == IF left THEN AdjustVolume(s, in, -VolumeStep) ELSE s
      IN  IF right THEN AdjustVolume(s1, in, VolumeStep) ELSE s1

KeyboardVolume(s, in, list) ==
    IF s.currentState # "SETTINGS" THEN s
    ELSE
      LET s0 == NoteRead(s, list)
          sel == VolumeSelected(s, in, list)
          left == IsKeyPressed(in, "K_LEFT") \/ IsKeyPressed(in, "K_A")
          right == IsKeyPressed(in, "K_RIGHT") \/ IsKeyPressed(in, "K_D")
          s1 == IF left THEN AdjustVolume(s0, in, -VolumeStep) ELSE s0
          s2 == IF right THEN AdjustVolume(s1, in, VolumeStep) ELSE s1
      IN  CASE sel = "crash" -> [s0 EXCEPT !.crashed = TRUE]
            [] sel = "yes" -> s2
            [] OTHER -> s0

\* a variant that looks at the navigation keys after the hover loop
KeyboardMouseMenuHoverFirst(s, in, list, inUpdateMenu) ==
    LET loop == IF ~s.keyboardControllerNavigationUsed
                THEN HoverLoop(s, in, list, 0, FALSE, inUpdateMenu)
                ELSE [s |-> s, used |-> FALSE]
        Rest(l, rest) ==
            LET s1 == IF KeyboardUsed(rest)
                      THEN [l.s EXCEPT !.keyboardControllerNavigationUsed = TRUE]
                      ELSE l.s
                s2 == IF inUpdateMenu THEN KeyboardVolume(s1, rest, list) ELSE s1
                s3 == KeyboardNavigation(s2, rest, list)
            IN  IF s2.crashed THEN s2
                ELSE IF l.used
                     THEN [s3 EXCEPT !.keyboardControllerNavigationUsed = FALSE]
                     ELSE s3
    IN  CHOOSE r \in { Rest(l, InputAfter(s, l.s, in)) : l \in {loop} } : TRUE

\* a variant whose hover loop runs whether or not the navigation flag is set
KeyboardMouseMenuAlwaysHovers(s, in, list, inUpdateMenu) ==
    LET s1 == IF KeyboardUsed(in)
              THEN [s EXCEPT !.keyboardControllerNavigationUsed = TRUE] ELSE s
        loop == HoverLoop(s1, in, list, 0, FALSE, inUpdateMenu)
        \* after the loop (l: its result, worked out once), with the input
        \* that is read then
        Rest(l, rest) ==
            LET s2 == IF inUpdateMenu THEN KeyboardVolume(l.s, rest, list) ELSE l.s
                s3 == KeyboardNavigation(s2, rest, list)
            IN  IF s2.crashed THEN s2
                ELSE IF l.used
                     THEN [s3 EXCEPT !.keyboardControllerNavigationUsed = FALSE]
                     ELSE s3
    IN  CHOOSE r \in { Rest(l, InputAfter(s, l.s, in)) : l \in {loop} } : TRUE

\* the KEYBOARD_MOUSE branch of UpdateMenu and of UpdatePaused
KeyboardMouseMenu(s, in, list, inUpdateMenu) ==
    LET s1 == IF KeyboardUsed(in)
              THEN [s EXCEPT !.keyboardControllerNavigationUsed = TRUE] ELSE s
        loop == IF ~s1.keyboardControllerNavigationUsed
                THEN HoverLoop(s1, in, list, 0, FALSE, inUpdateMenu)
                ELSE [s |-> s1, used |-> FALSE]
        \* after the loop (l: its result, worked out once), with the input
        \* that is read then
        Rest(l, rest) ==
            LET s2 == IF inUpdateMenu THEN KeyboardVolume(l.s, rest, list) ELSE l.s
                s3 == KeyboardNavigation(s2, rest, list)
            IN  IF s2.crashed THEN s2
                ELSE IF l.used
                     THEN [s3 EXCEPT !.keyboardControllerNavigationUsed = FALSE]
                     ELSE s3
    IN  CHOOSE r \in { Rest(l, InputAfter(s, l.s, in)) : l \in {loop} } : TRUE

\* "Volume adjustment with controller (one jump per press)"
ControllerVolume(s, in, list) ==
    IF s.currentState # "SETTINGS" THEN s
    ELSE
      LET s0 == NoteRead(s, list)
          sel == VolumeSelected(s, in, list)
          l == JustPressed(s0, "dPadLeftPressedVol", Button(in, "P_DLEFT"))
          s1 == IF l.r THEN AdjustVolume(l.s, in, -VolumeStep) ELSE l.s
          r == JustPressed(s1, "dPadRightPressedVol", Button(in, "P_DRIGHT"))
          s2 == IF r.r THEN AdjustVolume(r.s, in, VolumeStep) ELSE r.s
      IN  CASE sel = "crash" -> [s0 EXCEPT !.crashed = TRUE]
            [] sel = "yes" -> s2
            [] OTHER -> s0

\* "a || b || c" on the D-pad, the arrow key and the stick: a later
\* operand is evaluated, and its tracker written, only if the earlier
\* ones are false
DirectionPressed(s, in, padTracker, padButton, key, stickTracker, axisValue) ==
    LET d == JustPressed(s, padTracker, Button(in, padButton))
    IN  IF d.r \/ IsKeyPressed(in, key) THEN [r |-> TRUE, s |-> d.s]
        ELSE AnalogJustPressed(d.s, stickTracker, axisValue)

\* a variant that neither sets the navigation flag nor clears the hover
ControllerMenuKeepsHover(s, in, list, inUpdateMenu) ==
    IF ~s.controller THEN s
    ELSE
      LET up == DirectionPressed(s, in, "dPadUpPressed", "P_DUP", "K_UP",
                                 "analogUpPressed", -LeftY(in))
          s2 == IF up.r THEN MoveUp(up.s, list) ELSE up.s
          down == DirectionPressed(s2, in, "dPadDownPressed", "P_DDOWN", "K_DOWN",
                                   "analogDownPressed", LeftY(in))
          s3 == IF down.r THEN MoveDown(down.s, list) ELSE down.s
          s4 == MarkSelected(s3, list)
          a == JustPressed(s4, "aButtonPressed", Button(in, "P_A"))
          s5 == IF a.r \/ IsKeyPressed(in, "K_ENTER")
                THEN ActivateSelected(a.s, in, list) ELSE a.s
      IN  IF inUpdateMenu THEN ControllerVolume(s5, InputAfter(s, s5, in), list)
          ELSE s5

\* the CONTROLLER branch of UpdateMenu (inUpdateMenu) and of UpdatePaused
ControllerMenu(s, in, list, inUpdateMenu) ==
    IF ~s.controller THEN s
    ELSE
      LET s1 == [s EXCEPT !.keyboardControllerNavigationUsed = TRUE,
                          !.isHovered[list] = {}]
          up == DirectionPressed(s1, in, "dPadUpPressed", "P_DUP", "K_UP",
                                 "analogUpPressed", -LeftY(in))
          s2 == IF up.r THEN MoveUp(up.s, list) ELSE up.s
          down == DirectionPressed(s2, in, "dPadDownPressed", "P_DDOWN", "K_DOWN",
                                   "analogDownPressed", LeftY(in))
          s3 == IF down.r THEN MoveDown(down.s, list) ELSE down.s
          s4 == MarkSelected(s3, list)
          a == JustPressed(s4, "aButtonPressed", Button(in, "P_A"))
          s5 == IF a.r \/ IsKeyPressed(in, "K_ENTER")
                THEN ActivateSelected(a.s, in, list) ELSE a.s
      IN  IF inUpdateMenu THEN ControllerVolume(s5, InputAfter(s, s5, in), list)
          ELSE s5

\* the return to the main menu at the top of UpdateMenu, in SETTINGS
SettingsBack(s, in) ==
    LET escapePressed == IsKeyPressed(in, "K_ESC")
        back == PadJustPressed(s, in, "backButtonPressed", "P_BACK")
        b == PadJustPressed(back.s, in, "bButtonPressed", "P_B")
        s1 == IF escapePressed THEN Fired(b.s, "ESC") ELSE b.s
        s2 == IF back.r THEN Fired(s1, "BACK") ELSE s1
        s3 == IF b.r THEN Fired(s2, "B") ELSE s2
    IN  [r |-> escapePressed \/ back.r \/ b.r, s |-> s3]

UpdateMenu(s, in, list) ==
    LET s1 == RebuildIfResized(s, TRUE)
        back == IF s1.currentState = "SETTINGS" THEN SettingsBack(s1, in)
                ELSE [r |-> FALSE, s |-> s1]
        s2 == ClearFlags(back.s, list)
    IN  IF back.r
        THEN [SaveGame(back.s, FileOpens(in)) EXCEPT !.currentState = "MENU"]
        ELSE IF s2.currentInputMode = "KEYBOARD_MOUSE"
             THEN KeyboardMouseMenu(s2, in, list, TRUE)
             ELSE ControllerMenu(s2, in, list, TRUE)

---------------------------------------------------------------------------
(* Game::UpdateGame *)

IsKeyDown(in, pressed, held) == pressed \in in.atoms \/ held \in in.atoms

\* the movement vector, each component in units of 1 / FP
Movement(s, in) ==
    LET kx == (IF IsKeyDown(in, "K_D", "H_D") \/ IsKeyPressed(in, "K_RIGHT") THEN FP ELSE 0)
              - (IF IsKeyDown(in, "K_A", "H_A") \/ IsKeyPressed(in, "K_LEFT") THEN FP ELSE 0)
        ky == (IF IsKeyDown(in, "K_S", "H_S") \/ IsKeyPressed(in, "K_DOWN") THEN FP ELSE 0)
              - (IF IsKeyDown(in, "K_W", "H_W") \/ IsKeyPressed(in, "K_UP") THEN FP ELSE 0)
        px == IF s.controller /\ Abs(LeftX(in)) > Deadzone
              THEN DivRound(LeftX(in) * (FP \div 10), AxisMax) * 10 ELSE 0
        py == IF s.controller /\ Abs(LeftY(in)) > Deadzone
              THEN DivRound(LeftY(in) * (FP \div 10), AxisMax) * 10 ELSE 0
        x == IF s.currentInputMode = "KEYBOARD_MOUSE" THEN kx ELSE px
        y == IF s.currentInputMode = "KEYBOARD_MOUSE" THEN ky ELSE py
    IN  IF x # 0 /\ y # 0
        THEN <<DivRound(x * 707, 1000), DivRound(y * 707, 1000)>>
        ELSE <<x, y>>

MinOf(a, b) == IF a < b THEN a ELSE b

\* a variant that lets the player leave the window
MovePlayerUnclamped(s, in) ==
    LET movement == Movement(s, in)
        baseSpeed == MinOf(s.screen[1], s.screen[2])
        dx == DivRound(movement[1] * baseSpeed, 2000) * in.dt
        dy == DivRound(movement[2] * baseSpeed, 2000) * in.dt
    IN  [s EXCEPT !.playerPos = <<s.playerPos[1] + dx, s.playerPos[2] + dy>>]

\* the movement and the clamp of UpdateGame
MovePlayer(s, in) ==
    LET movement == Movement(s, in)
        baseSpeed == MinOf(s.screen[1], s.screen[2])     \* twice the speed, in pixels
        dx == DivRound(movement[1] * baseSpeed, 2000) * in.dt
        dy == DivRound(movement[2] * baseSpeed, 2000) * in.dt
        playerSize == s.screen[1] * (FP \div 100) * 3
    IN  [s EXCEPT !.playerPos =
            <<Clamp(s.playerPos[1] + dx, 0, s.screen[1] * FP - playerSize),
              Clamp(s.playerPos[2] + dy, 0, s.screen[2] * FP - playerSize)>>]

\* the pause test of UpdateGame: "IsKeyPressed(KEY_ESCAPE) || (controller &&
\* IsButtonJustPressed(startButtonPressed, ...))"
PauseRequested(s, in) ==
    IF IsKeyPressed(in, "K_ESC") THEN [r |-> TRUE, s |-> Fired(s, "ESC")]
    ELSE LET start == PadJustPressed(s, in, "startButtonPressed", "P_START")
         IN  [r |-> start.r, s |-> IF start.r THEN Fired(start.s, "START") ELSE start.s]

\* a variant whose pause request leaves the game for the main menu
UpdateGameQuits(s, in) ==
    LET p == PauseRequested(s, in)
        s1 == IF p.r THEN [p.s EXCEPT !.currentState = "MENU"] ELSE p.s
    IN  MovePlayer(s1, in)

UpdateGame(s, in) ==
    LET p == PauseRequested(s, in)
        s1 == IF p.r THEN [p.s EXCEPT !.currentState = "PAUSED"] ELSE p.s
    IN  MovePlayer(s1, in)

---------------------------------------------------------------------------
(* Game::UpdatePaused *)

\* "IsKeyPressed(KEY_ESCAPE) || (controller && IsButtonJustPressed(start))
\*  || (controller && IsButtonJustPressed(b))"
ResumeRequested(s, in) ==
    IF IsKeyPressed(in, "K_ESC") THEN [r |-> TRUE, s |-> Fired(s, "ESC")]
    ELSE LET start == PadJustPressed(s, in, "startButtonPressed", "P_START")
         IN  IF start.r THEN [r |-> TRUE, s |-> Fired(start.s, "START")]
             ELSE LET b == PadJustPressed(start.s, in, "bButtonPressed", "P_B")
                  IN  [r |-> b.r, s |-> IF b.r THEN Fired(b.s, "B") ELSE b.s]

\* "IsKeyPressed(KEY_M) || (controller && IsButtonJustPressed(back))"
MainMenuRequested(s, in) ==
    IF IsKeyPressed(in, "K_M") THEN [r |-> TRUE, s |-> Fired(s, "M")]
    ELSE LET back == PadJustPressed(s, in, "backButtonPressed", "P_BACK")
         IN  [r |-> back.r, s |-> IF back.r THEN Fired(back.s, "BACK") ELSE back.s]

\* the two tests at the top of UpdatePaused
PausedKeys(s, in) ==
    LET resume == ResumeRequested(s, in)
        s1 == IF resume.r THEN [resume.s EXCEPT !.currentState = "PLAYING"] ELSE resume.s
        menu == MainMenuRequested(s1, in)
    IN  IF menu.r THEN [menu.s EXCEPT !.currentState = "MENU"] ELSE menu.s

UpdatePaused(s, in) ==
    LET s1 == PausedKeys(s, in)
        s2 == ClearFlags(RebuildIfResized(s1, FALSE), "pause")
    IN  IF s2.currentInputMode = "KEYBOARD_MOUSE"
        THEN KeyboardMouseMenu(s2, in, "pause", FALSE)
        ELSE ControllerMenu(s2, in, "pause", FALSE)

---------------------------------------------------------------------------
(* Game::Update *)

\* a variant whose countdown stops at one and stays pending
ForceFullscreenResizeStuck(s, in) ==
    IF s.pendingFullscreenResize /\ s.fullscreenResizeFrames > 0
    THEN [RequestWindowSize(Fired(s, "FORCED"), in, Monitor) EXCEPT
              !.fullscreenResizeFrames = IF @ > 1 THEN @ - 1 ELSE @]
    ELSE s

\* "Workaround: force fullscreen resize for a few frames after toggling"
ForceFullscreenResize(s, in) ==
    IF s.pendingFullscreenResize /\ s.fullscreenResizeFrames > 0
    THEN [RequestWindowSize(Fired(s, "FORCED"), in, Monitor) EXCEPT
              !.fullscreenResizeFrames = @ - 1,
              !.pendingFullscreenResize = (s.fullscreenResizeFrames - 1 # 0)]
    ELSE s

\* a variant whose popup counts down and is never taken away
UpdatePopupKeepsShowing(s, in) ==
    IF s.showSavePopup
    THEN [s EXCEPT !.savePopupTimer = @ - in.dt * (FP \div 1000)]
    ELSE s

UpdatePopup(s, in) ==
    IF s.showSavePopup
    THEN LET timer == s.savePopupTimer - in.dt * (FP \div 1000)
         IN  [s EXCEPT !.savePopupTimer = timer, !.showSavePopup = ~(timer <= 0)]
    ELSE s

\* a variant that moves the player in every state
DispatchMovesAlways(s, in) ==
    CASE s.currentState = "MENU" -> MovePlayer(UpdateMenu(s, in, "main"), in)
      [] s.currentState = "PLAYING" -> UpdateGame(s, in)
      [] s.currentState = "SETTINGS" -> MovePlayer(UpdateMenu(s, in, "settings"), in)
      [] s.currentState = "PAUSED" -> MovePlayer(UpdatePaused(s, in), in)

\* the switch of Update
Dispatch(s, in) ==
    CASE s.currentState = "MENU" -> UpdateMenu(s, in, "main")
      [] s.currentState = "PLAYING" -> UpdateGame(s, in)
      [] s.currentState = "SETTINGS" -> UpdateMenu(s, in, "settings")
      [] s.currentState = "PAUSED" -> UpdatePaused(s, in)

\* the trace of a step starts empty
StartStep(s) ==
    [s EXCEPT !.prevState = s.currentState, !.fired = {}, !.acts = <<>>,
              !.saves = 0, !.writes = 0, !.crashed = FALSE, !.adjusts = <<>>,
              !.held = <<>>]

Update(s, in) ==
    Dispatch(UpdatePopup(CheckInputMode(ForceFullscreenResize(StartStep(s), in), in), in), in)

---------------------------------------------------------------------------
(* The state after Game::Game *)

GameFields == {"currentState", "isFullscreen", "targetFPS", "shouldExit",
               "forceMenuRecalc", "lastWindowWidth", "lastWindowHeight",
               "currentInputMode", "selectedMenuItem", "menuDims", "isHovered",
               "isSelected", "playerPos", "saveData", "showSavePopup",
               "savePopupTimer", "controller", "keyboardControllerNavigationUsed",
               "pendingFullscreenResize", "fullscreenResizeFrames", "volume"}
              \cup Trackers
SysFields == {"screen", "cursorHidden", "file", "mouse", "masterVolume"}
\* the trace of the last step; held is what the program was at each wait of
\* the step in EndDrawing() (main.cpp:684-689), wait is the iteration that
\* a step has left in such a wait
ObsFields == {"prevState", "fired", "acts", "saves", "writes", "crashed", "toggles",
              "frames", "raws", "rets", "adjusts", "held", "wait"}

\* a save file an earlier run left: windowed, played with a controller
EarlierSave ==
    [playerPos |-> <<FP \div 2, FP \div 4>>, isFullscreen |-> FALSE,
     targetFPS |-> DefaultFPS, inputMode |-> "CONTROLLER", volume |-> (FP \div 20) * 16]

\* what is at saveFilePath when the program starts
NoFile == [exists |-> FALSE, data |-> DefaultSaveData]

SaveFiles == {NoFile, [exists |-> TRUE, data |-> EarlierSave]}

\* a variant that reads the record without looking whether the file opened
LoadGameUnchecked(s) ==
    [s EXCEPT !.saveData = s.file.data, !.isFullscreen = s.file.data.isFullscreen,
              !.targetFPS = s.file.data.targetFPS,
              !.currentInputMode = s.file.data.inputMode,
              !.volume = s.file.data.volume]

\* Game::LoadGame on the fields the constructor initialised
LoadGame(s) ==
    IF s.file.exists
    THEN [s EXCEPT !.saveData = s.file.data, !.isFullscreen = s.file.data.isFullscreen,
                   !.targetFPS = s.file.data.targetFPS,
                   !.currentInputMode = s.file.data.inputMode,
                   !.volume = s.file.data.volume]
    ELSE [s EXCEPT !.volume = FP \div 2]

\* Game::InitializeWindow
InitializeWindow(s) ==
    [s EXCEPT !.screen = IF s.isFullscreen THEN Monitor ELSE Windowed]

\* the member initialisers of Game (main.cpp:54-116, 192-194)
Constructed(file, hasController) ==
    [currentState |-> "MENU", isFullscreen |-> TRUE, targetFPS |-> DefaultFPS,
     shouldExit |-> FALSE, forceMenuRecalc |-> FALSE,
     lastWindowWidth |-> 0, lastWindowHeight |-> 0,
     currentInputMode |-> "KEYBOARD_MOUSE", selectedMenuItem |-> 0,
     menuDims |-> Monitor, isHovered |-> NoFlags, isSelected |-> NoFlags,
     playerPos |-> <<100 * FP, 100 * FP>>, saveData |-> DefaultSaveData,
     showSavePopup |-> FALSE, savePopupTimer |-> 0, controller |-> hasController,
     keyboardControllerNavigationUsed |-> FALSE,
     pendingFullscreenResize |-> FALSE, fullscreenResizeFrames |-> 0,
     volume |-> FP \div 2,
     dPadUpPressed |-> FALSE, dPadDownPressed |-> FALSE, aButtonPressed |-> FALSE,
     bButtonPressed |-> FALSE, startButtonPressed |-> FALSE,
     backButtonPressed |-> FALSE, analogUpPressed |-> FALSE,
     analogDownPressed |-> FALSE, dPadLeftPressedVol |-> FALSE,
     dPadRightPressedVol |-> FALSE,
     screen |-> Monitor, cursorHidden |-> FALSE, file |-> file, mouse |-> <<0, 0>>,
     masterVolume |-> FP \div 2,
     prevState |-> "MENU", fired |-> {}, acts |-> <<>>, saves |-> 0, writes |-> 0,
     crashed |-> FALSE, toggles |-> 0, frames |-> 0, raws |-> <<>>, rets |-> <<>>,
     adjusts |-> <<>>, held |-> <<>>, wait |-> <<>>]

\* Game::Game: LoadGame, SetMasterVolume, InitializeWindow,
\* SetPlayerPositionFromSave, InitializeMenus, InitSDL2Controller
GameGame(file, hasController) ==
    LET s1 == LoadGame(Constructed(file, hasController))
        s2 == InitializeWindow([s1 EXCEPT !.masterVolume = s1.volume])
    IN  InitializeMenus(SetPlayerPositionFromSave(s2))

Restrict(s, fields) == [f \in fields |-> s[f]]

World == game @@ sys @@ obs

Commit(s) ==
    /\ game' = Restrict(s, GameFields)
    /\ sys' = Restrict(s, SysFields)
    /\ obs' = Restrict(s, ObsFields)

\* the program has started, with one of the given files at saveFilePath
InitWith(files) ==
    \E file \in files, hasController \in BOOLEAN :
        LET s == GameGame(file, hasController)
        IN  /\ game = Restrict(s, GameFields)
            /\ sys = Restrict(s, SysFields)
            /\ obs = Restrict(s, ObsFields)
            /\ pc = "running"

\* a first run: no save file
Init == InitWith({NoFile})

---------------------------------------------------------------------------
(* The steps *)

\* the record after the Update of a frame with input in
After(in) ==
    Update([World EXCEPT !.mouse = in.mouse, !.frames = @ + 1], in)

\* what can go down while a step waits for the window: nothing, a key that
\* adjusts the volume, a key that activates, or the left mouse button
LateInputs == {{}, {"L_LEFT"}, {"L_ENTER"}, {"L_MLEFT"}}

\* where the pointer can be when the wait is over: on "Back to Menu", as
\* the 1280x720 window lays it out
LatePoints == {Centre(Bounds(Windowed, "settings", 2))}

\* the inputs an iteration begins with, over an alphabet of atoms: the
\* pointer is where it was unless the mouse moved
Begun(atomSets, points) ==
    {[atoms |-> a[1], mouse |-> a[2], late |-> a[2], dt |-> FrameMillis] :
        a \in {c \in atomSets \X (points \cup {sys.mouse}) :
                  ("M_MOVE" \in c[1]) = (c[2] # sys.mouse)}}

\* the inputs of a whole iteration: a frame of Settings with a signal that
\* activates an entry, the only frame that can wait for the window
\* (main.cpp:684-689), also has what arrives in a wait, a key or a button
\* going down or the pointer moving
Inputs(atomSets, points) ==
    LET arrivals(b) ==
            IF /\ game.currentState = "SETTINGS"
               /\ b.atoms \cap {"M_LEFT", "K_ENTER", "K_SPACE", "P_A"} # {}
            THEN {[b EXCEPT !.atoms = @ \cup l] : l \in LateInputs}
                 \cup {[b EXCEPT !.late = q] : q \in LatePoints}
            ELSE {b}
    IN  UNION {arrivals(b) : b \in Begun(atomSets, points)}

\* one iteration of Run's loop, in a run of at most maxFrames frames and
\* maxToggles fullscreen toggles: Update (Draw changes nothing) to its end,
\* or, when it activates "Toggle Fullscreen", to the first EndDrawing() of
\* HandleMenuClick (main.cpp:684-689), where the program is as held records
\* it and the window system gets its turn. wait keeps the iteration's input,
\* with what the polls are going to deliver, and what the iteration comes
\* to with it
FrameWithin(atomSets, points, maxFrames, maxToggles) ==
    /\ pc = "running"
    /\ ~game.shouldExit
    /\ obs.frames < maxFrames
    /\ \E in \in Inputs(atomSets, points) :
          \E s \in {After(in)} :
              /\ s.toggles <= maxToggles
              /\ IF s.held = <<>>
                 THEN /\ in.late = in.mouse /\ in.atoms \cap LateAtoms = {}
                      /\ Commit(s)
                      /\ pc' = IF s.crashed THEN "crashed" ELSE "running"
                 ELSE /\ Commit([s.held[1] EXCEPT !.wait =
                                    <<[then |-> [s EXCEPT !.held = <<>>],
                                       held |-> s.held, late |-> in.late,
                                       polls |-> 0]>>])
                      /\ pc' = "waiting"

\* one EndDrawing() of a wait (main.cpp:684-689): a frame is presented and
\* the events are polled. The pointer moves at any poll of the first wait;
\* a key or a button that goes down is pressed for the rest of the
\* iteration only if the last poll delivers it, and "Toggle Fullscreen"
\* activated again leads into a second wait
PresentFrame ==
    /\ pc = "waiting"
    /\ \E w \in {obs.wait[1]} :
          /\ w.polls < WaitPolls * Len(w.held)
          /\ \E q \in {sys.mouse, w.late} :
                /\ w.polls >= WaitPolls - 1 => q = w.late
                /\ Commit([w.held[(w.polls \div WaitPolls) + 1] EXCEPT
                              !.mouse = q,
                              !.wait = <<[w EXCEPT !.polls = @ + 1]>>])
    /\ UNCHANGED pc

\* the rest of the iteration after the waits: SetPlayerPositionFromSave and
\* forceMenuRecalc (main.cpp:691-692), then what is left of Update
FinishUpdate ==
    /\ pc = "waiting"
    /\ \E w \in {obs.wait[1]} :
          /\ w.polls = WaitPolls * Len(w.held)
          /\ Commit(w.then)
          /\ pc' = IF w.then.crashed THEN "crashed" ELSE "running"

Frame(atomSets, points) == FrameWithin(atomSets, points, MaxFrames, MaxToggles)

\* Game::~Game, after Run returns
Destroy(cause) ==
    \E fileOpens \in BOOLEAN :
        /\ Commit(SaveGame(Fired(StartStep(World), cause), fileOpens))
        /\ pc' = "done"

\* WindowShouldClose() ends the loop
WindowClose == pc = "running" /\ Destroy("CLOSE")

\* shouldExit ends the loop
ExitLoop == pc = "running" /\ game.shouldExit /\ Destroy("EXIT")

\* the signals the application state machine reads
FlowAtoms == {"K_ESC", "K_M", "K_ENTER", "K_DOWN", "K_UP", "M_LEFT", "M_MOVE",
              "P_A", "P_B", "P_START", "P_BACK", "P_DDOWN", "E_BUTTON",
              "X_WFAIL", "X_OOBCRASH"}

\* the signals that are also taken two or more in one frame
ChordAtoms == {"K_ESC", "K_M", "K_ENTER", "P_BACK", "P_B", "X_WFAIL"}

FlowInputs == AtomSets(FlowAtoms, 1) \cup AtomSets(ChordAtoms, MaxActive)

\* the centre of every entry of every list on the monitor
FlowPoints == {Centre(Bounds(Monitor, l, i)) : <<l, i>> \in
                  {<<l, i>> \in Lists \X (0 .. 3) : i < Size(l)}}

Next ==
    Frame(FlowInputs, FlowPoints) \/ PresentFrame \/ FinishUpdate \/ WindowClose \/ ExitLoop

Spec == Init /\ [][Next]_vars

---------------------------------------------------------------------------
(* The window and the player: a run over the keys that reach the settings  *)
(* list, toggle fullscreen, start the game and move the player, from a     *)
(* first run or from the save file an earlier run left.                    *)

MaxWindowFrames == 6    \* frames in one run of WindowSpec
MaxWindowToggles == 2   \* fullscreen toggles in one run of WindowSpec

WindowAtoms == {"K_ENTER", "K_DOWN", "K_UP", "K_LEFT", "K_RIGHT", "K_ESC",
                "X_NORESIZE", "X_WFAIL"}

\* two arrow keys at once (a diagonal), and a toggle whose resize is late
WindowChords == {{"K_RIGHT", "K_DOWN"}, {"K_LEFT", "K_UP"}, {"K_ENTER", "X_NORESIZE"}}

WindowInputs == AtomSets(WindowAtoms, 1) \cup WindowChords

\* the save of an earlier fullscreen run that left the player in the
\* bottom right corner: (1920 - 57.6) / 1920 and (1080 - 57.6) / 1080
CornerSave ==
    [DefaultSaveData EXCEPT
        !.playerPos = <<RelativeOf(MonitorW * FP - MonitorW * (FP \div 100) * 3, MonitorW),
                        RelativeOf(MonitorH * FP - MonitorW * (FP \div 100) * 3, MonitorH)>>]

\* the earlier save, in a file that cannot be opened
UnreadableFile == [exists |-> FALSE, data |-> EarlierSave]

WindowInit ==
    InitWith(SaveFiles \cup {[exists |-> TRUE, data |-> CornerSave], UnreadableFile})

WindowFrame == FrameWithin(WindowInputs, {}, MaxWindowFrames, MaxWindowToggles)

WindowNext ==
    WindowFrame \/ PresentFrame \/ FinishUpdate \/ WindowClose \/ ExitLoop

WindowSpec == WindowInit /\ [][WindowNext]_vars

---------------------------------------------------------------------------
(* Properties of the application state machine (main.cpp:437-450,         *)
(* 651-707, 709-714, 761-770)                                             *)

\* the list Update hands to the handler of a state
ListOf(state) ==
    CASE state = "MENU" -> "main"
      [] state = "SETTINGS" -> "settings"
      [] OTHER -> "pause"

\* the frames the loop can run in the current state
FlowFrames == Inputs(FlowInputs, FlowPoints)

\* the frame whose only signals are the given ones
FrameWith(atoms) ==
    After([atoms |-> atoms, mouse |-> sys.mouse, late |-> sys.mouse,
           dt |-> FrameMillis])

\* the record after one more frame from s, with the given signals and the
\* pointer left where it is
Step(s, atoms) ==
    Update([s EXCEPT !.frames = @ + 1],
           [atoms |-> atoms, mouse |-> s.mouse, late |-> s.mouse,
            dt |-> FrameMillis])

\* HandleMenuClick was called with this text in the last step
Activated(text) == \E k \in DOMAIN obs.acts : obs.acts[k][2] = text

\* the last step was a frame that began in this state
FrameFrom(state) ==
    /\ obs.frames > 0 /\ obs.prevState = state /\ obs.fired \cap {"CLOSE", "EXIT"} = {}
    /\ pc # "waiting"

Transitions == {<<"MENU", "PLAYING">>, <<"MENU", "SETTINGS">>,
                <<"SETTINGS", "MENU">>, <<"PLAYING", "PAUSED">>,
                <<"PAUSED", "PLAYING">>, <<"PAUSED", "MENU">>}

\* C1: the application starts in Menu, and every step either leaves the
\* application state as it is or changes it along one of the six
\* transitions of the table
TransitionTable ==
    /\ game.currentState = "MENU"
    /\ [][\/ game'.currentState = game.currentState
          \/ <<game.currentState, game'.currentState>> \in Transitions]_vars

\* a frame has taken the application from Menu to Settings
TransitionTableWitness ==
    FrameFrom("MENU") /\ game.currentState = "SETTINGS"

\* C2: the selected index is below the size of the list of the current
\* state, and no frame has read a list past its end
SelectedIndexInBounds ==
    /\ game.currentState # "PLAYING" =>
           game.selectedMenuItem \in 0 .. Size(ListOf(game.currentState)) - 1
    /\ "OOB" \notin obs.fired

\* C3: in a menu state with the selected index i in [0, N), a frame with
\* a down navigation leaves it at (i + 1) mod N, so at 0 from N - 1, and a
\* frame with an up navigation at (i - 1) mod N, so at N - 1 from 0
NavigationWraps ==
    (pc = "running" /\ game.currentState # "PLAYING"
        /\ InRange(game, ListOf(game.currentState))) =>
        LET N == Size(ListOf(game.currentState))
            i == game.selectedMenuItem
            down == FrameWith({"K_DOWN"}).selectedMenuItem
            up == FrameWith({"K_UP"}).selectedMenuItem
        IN  /\ down = (i + 1) % N /\ down \in 0 .. N - 1
            /\ up = (i - 1) % N /\ up \in 0 .. N - 1
            /\ i = N - 1 => down = 0
            /\ i = 0 => up = N - 1
            /\ (game.controller /\ game.currentInputMode = "CONTROLLER"
                  /\ ~game.dPadDownPressed) =>
                   FrameWith({"P_DDOWN"}).selectedMenuItem = (i + 1) % N

\* the first frame of a run has gone up from the first entry of the main
\* list to its last
NavigationWrapsWitness ==
    /\ obs.frames = 1 /\ game.currentState = "MENU"
    /\ game.keyboardControllerNavigationUsed
    /\ game.selectedMenuItem = Size("main") - 1

\* C4: a frame that takes the application from Paused to Menu saves
PausedToMenuSaves ==
    (FrameFrom("PAUSED") /\ game.currentState = "MENU") => obs.saves >= 1

\* C6: the loop has ended only by the window being closed or by the exit
\* flag, which only "Exit" in Menu sets, and a save was attempted then
LoopEndsOnCloseOrExit ==
    /\ pc \notin {"running", "waiting"} =>
           /\ pc = "done"
           /\ obs.saves >= 1
           /\ obs.fired \cap {"CLOSE", "EXIT"} # {}
    /\ (game.shouldExit /\ pc = "running") =>
           obs.acts = <<<<"MENU", "Exit">>>>

\* the position SetPlayerPositionFromSave is to give: the stored relative
\* position times the window's size, the square kept inside the window
RestoredPosition ==
    LET w == sys.screen[1]
        h == sys.screen[2]
        side == w * (FP \div 100) * 3
    IN  <<Clamp(game.saveData.playerPos[1] * w, 0, w * FP - side),
          Clamp(game.saveData.playerPos[2] * h, 0, h * FP - side)>>

\* C7: a frame in Menu in which "Start Game" is activated ends in
\* Playing, with the player at the stored relative position scaled by the
\* window's size and clamped
StartGameRestores ==
    (FrameFrom("MENU") /\ Activated("Start Game")) =>
        game.currentState = "PLAYING" /\ game.playerPos = RestoredPosition

\* "Start Game" was activated in the 1280x720 window a toggle has left
StartGameRestoresWitness ==
    /\ FrameFrom("MENU") /\ Activated("Start Game")
    /\ game.currentState = "PLAYING" /\ sys.screen = Windowed
    /\ game.playerPos = <<(WindowedW \div 10) * FP, (WindowedH \div 10) * FP>>

\* C8, as stated: a frame in Menu or in Paused in which "Save Game" is
\* activated saves and ends in the state it began in
SaveGameKeepsState ==
    (\/ FrameFrom("MENU") /\ Activated("Save Game")
     \/ FrameFrom("PAUSED") /\ Activated("Save Game")) =>
        obs.saves >= 1 /\ game.currentState = obs.prevState

\* C8: "Save Game", activated while the application state is Menu or
\* Paused at that moment of the frame, saves, and the frame ends in that
\* state
SaveGameKeepsStateAtActivation ==
    \A k \in DOMAIN obs.acts :
        (obs.acts[k][2] = "Save Game" /\ obs.acts[k][1] \in {"MENU", "PAUSED"}) =>
            obs.saves >= 1 /\ game.currentState = obs.acts[k][1]

\* "Save Game" of the pause list was activated in Paused and written
SaveGameKeepsStateWitness ==
    /\ FrameFrom("PAUSED") /\ obs.acts = <<<<"PAUSED", "Save Game">>>>
    /\ game.currentState = "PAUSED" /\ obs.saves = 1 /\ obs.writes = 1

---------------------------------------------------------------------------
(* The controller: a run over the pad's buttons, the left stick and the    *)
(* SDL events that announce them, with the keys and the mouse movement     *)
(* that compete for the input mode.                                        *)

MaxPadFrames == 5       \* frames in one run of PadSpec

PadSignals == {"S_UP", "S_DOWN", "P_DUP", "P_DDOWN", "P_A", "P_START", "P_BACK",
               "K_ESC", "K_ENTER", "M_MOVE", "E_AXIS", "E_BUTTON"}

\* a signal with the event that announces it, an event with keyboard or
\* mouse activity in the same frame, and a button pressed while another
\* is held
PadChords == {{"E_AXIS", "S_UP"}, {"E_AXIS", "S_DOWN"}, {"E_BUTTON", "P_A"},
              {"E_BUTTON", "P_DDOWN"}, {"E_BUTTON", "P_START"},
              {"E_BUTTON", "K_ENTER"}, {"E_AXIS", "M_MOVE"},
              {"P_START", "P_BACK"}, {"P_START", "K_ESC"}}

PadInputs == AtomSets(PadSignals, 1) \cup PadChords

PadPoints == {<<0, 0>>, Centre(Bounds(Monitor, "main", 1))}

PadInit == InitWith(SaveFiles)

PadFrame == FrameWithin(PadInputs, PadPoints, MaxPadFrames, 0)

PadNext == PadFrame \/ WindowClose \/ ExitLoop

PadSpec == PadInit /\ [][PadNext]_vars

\* the frames PadSpec can run in the current state
PadFrames == Inputs(PadInputs, PadPoints)

---------------------------------------------------------------------------
(* The volume: a run over the keys, the mouse targets and the D-pad        *)
(* buttons that adjust it in the settings list, from a first run or from   *)
(* a save file an earlier run left with the volume in the middle or at     *)
(* one of its bounds.                                                      *)

MaxVolumeFrames == 5    \* frames in one run of VolumeSpec

\* a first run that was left with the volume turned fully up, or down
VolumeSaves == {[DefaultSaveData EXCEPT !.volume = v] :
                   v \in {0, FP, 47 * (FP \div 100), 13 * (FP \div 40)}}

VolumeFiles == SaveFiles \cup {[exists |-> TRUE, data |-> d] : d \in VolumeSaves}

VolumeAtoms == {"K_DOWN", "K_UP", "K_ENTER", "K_LEFT", "K_RIGHT", "M_MOVE", "M_LEFT",
                "P_DUP", "P_DDOWN", "P_A", "P_DLEFT", "P_DRIGHT", "E_BUTTON"}

\* both directions in one frame, a click in the frame the pointer arrives,
\* and an adjustment whose write fails
VolumeChords == {{"K_LEFT", "K_RIGHT"}, {"P_DLEFT", "P_DRIGHT"}, {"M_MOVE", "M_LEFT"},
                 {"K_RIGHT", "X_WFAIL"}}

VolumeInputs == AtomSets(VolumeAtoms, 1) \cup VolumeChords

\* the centres of the minus and plus targets of "Volume"
VolumePoints == {Centre(MinusBtn(Bounds(Monitor, "settings", 0))),
                 Centre(PlusBtn(Bounds(Monitor, "settings", 0)))}

VolumeInit == InitWith(VolumeFiles)

VolumeFrame == FrameWithin(VolumeInputs, VolumePoints, MaxVolumeFrames, 0)

VolumeNext == VolumeFrame \/ WindowClose \/ ExitLoop

VolumeSpec == VolumeInit /\ [][VolumeNext]_vars

\* the frames VolumeSpec can run in the current state
VolumeFrames == Inputs(VolumeInputs, VolumePoints)

---------------------------------------------------------------------------
(* The pointer and the keyboard in the lists: a first run over the keys    *)
(* that navigate, the pointer moved onto the entries, and a click alone,   *)
(* in the frame the pointer arrives, or together with a key.               *)

MaxMenuFrames == 5      \* frames in one run of MenuSpec

MenuInputs ==
    AtomSets({"K_DOWN", "K_UP", "K_ENTER", "K_ESC", "M_MOVE", "M_LEFT",
              "P_A", "E_BUTTON"}, 1)
    \cup {{"M_MOVE", "M_LEFT"}, {"M_LEFT", "K_ENTER"}, {"M_LEFT", "K_DOWN"},
          {"M_LEFT", "K_ESC"}, {"M_LEFT", "X_OOBCRASH"}, {"M_MOVE", "K_DOWN"}}

MenuFrame == FrameWithin(MenuInputs, FlowPoints, MaxMenuFrames, MaxToggles)

MenuNext ==
    MenuFrame \/ PresentFrame \/ FinishUpdate \/ WindowClose \/ ExitLoop

MenuSpec == Init /\ [][MenuNext]_vars

\* the frames MenuSpec can run in the current state
MenuFrames == Inputs(MenuInputs, FlowPoints)

---------------------------------------------------------------------------
(* The popup: a first run over the keys that reach "Save Game", with       *)
(* frames short enough for the two seconds of the popup to take several,   *)
(* and writes that fail.  Run's loop runs a frame whenever it can and      *)
(* leaves when shouldExit is set.                                          *)

PopupMillis == 500      \* GetFrameTime() of a short frame, in milliseconds
MaxPopupFrames == 8     \* frames in one run of PopupSpec

\* the frames PopupSpec can run in the current state: short and long
PopupFrames ==
    {[atoms |-> a, mouse |-> sys.mouse, late |-> sys.mouse, dt |-> d] :
        <<a, d>> \in {{}, {"K_DOWN"}, {"K_ENTER"}, {"K_ESC"}, {"K_ENTER", "X_WFAIL"}}
                        \X {PopupMillis, 2 * PopupMillis}}

PopupFrame ==
    /\ pc = "running"
    /\ ~game.shouldExit
    /\ obs.frames < MaxPopupFrames
    /\ \E in \in PopupFrames :
          \E s \in {After(in)} :
              /\ s.toggles = 0
              /\ Commit(s)
              /\ pc' = IF s.crashed THEN "crashed" ELSE "running"

PopupNext == PopupFrame \/ WindowClose \/ ExitLoop

PopupSpec == Init /\ [][PopupNext]_vars

\* Run's loop (main.cpp:223-228) runs the next frame while it may and the
\* destructor follows the loop: weak fairness of PopupFrame and of
\* ExitLoop.  WF_vars(PopupFrame) is written out, with the condition under
\* which PopupFrame is enabled (the frame without input is always one of
\* its frames and adds to obs.frames) in the place of ENABLED
FairPopupSpec ==
    /\ PopupSpec
    /\ \/ []<>~(pc = "running" /\ ~game.shouldExit /\ obs.frames < MaxPopupFrames)
       \/ []<><<PopupFrame>>_vars
    /\ WF_vars(ExitLoop)

---------------------------------------------------------------------------
(* The forced resize: runs long enough for the ten frames that follow a    *)
(* toggle to fullscreen, over the keys that reach "Toggle Fullscreen" and  *)
(* press it again, from a first run or from the save of a windowed run.    *)

MaxResizeFrames == 16   \* frames in one run of ResizeSpec
MaxResizeToggles == 3   \* fullscreen toggles in one run of ResizeSpec

ResizeInputs == {{}, {"K_DOWN"}, {"K_ENTER"}}

ResizeFrame == FrameWithin(ResizeInputs, {}, MaxResizeFrames, MaxResizeToggles)

ResizeNext ==
    ResizeFrame \/ PresentFrame \/ FinishUpdate \/ WindowClose \/ ExitLoop

ResizeSpec == InitWith(SaveFiles) /\ [][ResizeNext]_vars

---------------------------------------------------------------------------
(* Edge detection: a first run over Enter, which starts the game and     *)
(* resumes it, and the Start button.  From the first frame of Playing on  *)
(* every frame is one of Playing or of Paused without Escape, and with a  *)
(* controller UpdateGame (main.cpp:711-713) and UpdatePaused (762-763)    *)
(* evaluate IsButtonJustPressed on the Start tracker once in each.        *)

MaxPolls == 7           \* frames in one run of EdgeSpec

EdgeInputs == {{}, {"P_START"}, {"K_ENTER"}, {"P_START", "K_ENTER"}}

\* one iteration of Run's loop; for a frame that evaluates
\* IsButtonJustPressed(startButtonPressed, ...), obs.raws and obs.rets
\* note the raw signal and the value returned
Poll ==
    /\ pc = "running"
    /\ ~game.shouldExit
    /\ obs.frames < MaxPolls
    /\ \E in \in Inputs(EdgeInputs, {}) :
          \E s \in {After(in)} :
              /\ Commit(IF game.currentState \in {"PLAYING", "PAUSED"} /\ game.controller
                        THEN [s EXCEPT !.raws = Append(@, Button(in, "P_START")),
                                       !.rets = Append(@, "START" \in s.fired)]
                        ELSE s)
              /\ pc' = IF s.crashed THEN "crashed" ELSE "running"

EdgeNext == Poll

EdgeSpec == Init /\ [][EdgeNext]_vars

\* C12: on a tracker that starts false, the evaluation of a frame returns
\* true exactly when the raw signal is true in that frame and the frame is
\* the first of all or follows a frame whose raw signal was false: once
\* at the start of every maximal run of true, never on false
JustPressedOncePerRun ==
    \A k \in DOMAIN obs.rets :
        obs.rets[k] = (obs.raws[k] /\ (k = 1 \/ ~obs.raws[k - 1]))

\* "Start Game", then a run of three frames with Start held, which
\* pauses once, and, after a release, a run of two, which resumes once
JustPressedOncePerRunWitness ==
    /\ obs.raws = <<TRUE, TRUE, TRUE, FALSE, TRUE, TRUE>>
    /\ obs.rets = <<TRUE, FALSE, FALSE, FALSE, TRUE, FALSE>>
    /\ game.startButtonPressed /\ game.currentState = "PLAYING" /\ obs.frames = 7

---------------------------------------------------------------------------
(* Properties of the fullscreen toggle (main.cpp:454-462, 667-692)         *)

\* the frames WindowSpec can run in the current state
WindowFrames == Inputs(WindowInputs, {})

\* HandleMenuClick was called with this text in the step that made s
ActivatedIn(s, text) == \E k \in DOMAIN s.acts : s.acts[k][2] = text

\* the stored relative position of s scaled by the window's size of s,
\* the square kept inside the window
RestoredIn(s) ==
    LET w == s.screen[1]
        h == s.screen[2]
        side == w * (FP \div 100) * 3
    IN  <<Clamp(s.saveData.playerPos[1] * w, 0, w * FP - side),
          Clamp(s.saveData.playerPos[2] * h, 0, h * FP - side)>>

\* C11: a frame in Settings that activates "Toggle Fullscreen" negates
\* the fullscreen flag, ends in Settings with the player at the stored
\* position scaled to the window and with the force-rebuild flag set; the
\* flag is set in Settings only, and the next frame rebuilds the three
\* lists for the window (the lists not on screen have no flags left) and
\* clears the flag, unless that frame toggles again
ToggleFullscreenRebuilds ==
    /\ (pc = "running" /\ game.currentState = "SETTINGS") =>
           \A in \in WindowFrames :
               LET a == After(in)
               IN  ActivatedIn(a, "Toggle Fullscreen") =>
                       /\ a.isFullscreen = ~game.isFullscreen
                       /\ a.currentState = "SETTINGS"
                       /\ a.playerPos = RestoredIn(a)
                       /\ a.forceMenuRecalc
    /\ (pc = "running" /\ game.forceMenuRecalc) =>
           /\ game.currentState = "SETTINGS"
           /\ \A in \in WindowFrames :
                  LET a == After(in)
                  IN  /\ a.forceMenuRecalc = ActivatedIn(a, "Toggle Fullscreen")
                      /\ a.lastWindowWidth = ForceFullscreenResize(World, in).screen[1]
                      /\ a.lastWindowHeight = ForceFullscreenResize(World, in).screen[2]
                      /\ a.menuDims = ForceFullscreenResize(World, in).screen
                      /\ \A l \in Lists \ {"settings"} :
                             a.isHovered[l] = {} /\ a.isSelected[l] = {}

\* the frame after a toggle to the 1280x720 window has rebuilt the lists
\* for that window and cleared the flag
ToggleFullscreenRebuildsWitness ==
    /\ FrameFrom("SETTINGS") /\ obs.toggles = 1 /\ obs.acts = <<>>
    /\ ~game.isFullscreen /\ ~game.forceMenuRecalc
    /\ game.menuDims = Windowed /\ sys.screen = Windowed
    /\ game.lastWindowWidth = WindowedW /\ sys.file = NoFile

---------------------------------------------------------------------------
(* Properties of the controller input (main.cpp:87-102, 169-189, 318-339,  *)
(* 597-612)                                                                *)

\* the trackers of the buttons, with the button each one follows
ButtonOf == [dPadUpPressed |-> "P_DUP", dPadDownPressed |-> "P_DDOWN",
             aButtonPressed |-> "P_A", bButtonPressed |-> "P_B",
             startButtonPressed |-> "P_START", backButtonPressed |-> "P_BACK"]

\* the signal the analog trackers follow: the stick is past the threshold
StickPushed(in) == Abs(LeftY(in)) > AnalogStickThreshold

\* C5: a frame that takes the application from Settings to Menu saves,
\* and in Settings the entry "Back to Menu", Escape, and a press of
\* controller Back or of controller B (the button was up in the frame
\* before) each lead to Menu, with a save
SettingsToMenuSaves ==
    /\ (FrameFrom("SETTINGS") /\ game.currentState = "MENU") => obs.saves >= 1
    /\ (FrameFrom("SETTINGS") /\ Activated("Back to Menu")) =>
           game.currentState = "MENU" /\ obs.saves >= 1
    /\ (pc = "running" /\ game.currentState = "SETTINGS") =>
           \A in \in PadFrames :
               "K_ESC" \in in.atoms =>
                   \A a \in {After(in)} : a.currentState = "MENU" /\ a.saves >= 1
    /\ (pc = "running" /\ game.controller) =>
           \A in \in PadFrames : \A s \in {After(in)} :
               (s.currentState = "SETTINGS" /\ ~s.crashed) =>
                   \A button \in {"P_BACK", "P_B"} \ in.atoms :
                       \A a \in {Step(s, {button})} :
                           a.currentState = "MENU" /\ a.saves >= 1

\* C9: in Playing a frame with Escape, or with a press of controller
\* Start (the button was up in the frame before), ends in Paused, and a
\* frame ends in Paused after another state only if it began in Playing
\* and Escape or Start has paused it
PausedOnlyFromPlaying ==
    /\ (pc = "running" /\ game.currentState = "PLAYING") =>
           \A in \in PadFrames :
               "K_ESC" \in in.atoms =>
                   \A a \in {After(in)} : a.currentState = "PAUSED"
    /\ (pc = "running" /\ game.controller) =>
           \A in \in PadFrames : \A s \in {After(in)} :
               (s.currentState = "PLAYING" /\ "P_START" \notin in.atoms) =>
                   \A a \in {Step(s, {"P_START"})} : a.currentState = "PAUSED"
    /\ (game.currentState = "PAUSED" /\ obs.prevState # "PAUSED") =>
           obs.prevState = "PLAYING" /\ obs.fired \cap {"ESC", "START"} # {}

\* C10: in Paused a frame with Escape, with a press of controller Start
\* or of controller B (the button was up in the frame before), or one in
\* which "Resume" is activated, ends in Playing and saves nothing, unless
\* key M or controller Back is among its inputs
ResumeReturnsToPlaying ==
    /\ (pc = "running" /\ game.currentState = "PAUSED") =>
           \A in \in PadFrames :
               ("K_ESC" \in in.atoms /\ in.atoms \cap {"K_M", "P_BACK"} = {}) =>
                   \A a \in {After(in)} : a.currentState = "PLAYING" /\ a.saves = 0
    /\ (pc = "running" /\ game.controller) =>
           \A in \in PadFrames : \A s \in {After(in)} :
               (s.currentState = "PAUSED" /\ ~s.crashed) =>
                   \A button \in {"P_START", "P_B"} \ in.atoms :
                       \A a \in {Step(s, {button})} :
                           a.currentState = "PLAYING" /\ a.saves = 0
    /\ (FrameFrom("PAUSED") /\ Activated("Resume")
          /\ obs.fired \cap {"M", "BACK"} = {}) =>
           game.currentState = "PLAYING" /\ obs.saves = 0

\* C13, as stated: whatever the state and the input mode, a frame in which
\* the button of a tracker is up ends with that tracker false, and a frame
\* in which the stick is within the threshold ends with the analog
\* trackers false
TrackersFollowRelease ==
    pc = "running" =>
        \A in \in PadFrames :
            LET a == After(in)
            IN  /\ \A f \in DOMAIN ButtonOf : ~Button(in, ButtonOf[f]) => ~a[f]
                /\ ~StickPushed(in) => ~a.analogUpPressed /\ ~a.analogDownPressed

\* the frames in which only the stick acts: pushed fully up or down, with
\* or without the event that announces it
StickFrames(direction) ==
    {in \in PadFrames : direction \in in.atoms /\ in.atoms \subseteq {direction, "E_AXIS"}}

\* C14, as stated: in a menu screen in Controller mode with a controller,
\* the stick at rest before the frame, a push down moves the selection by
\* +1 modulo the size of the list and a push up by -1 modulo the size,
\* and the selection stays while the stick is held
StickMovesSelectionOnce ==
    (/\ pc = "running" /\ game.controller
     /\ game.currentInputMode = "CONTROLLER"
     /\ game.currentState \in {"MENU", "SETTINGS", "PAUSED"}) =>
        LET n == Size(ListOf(game.currentState))
            sel == game.selectedMenuItem
        IN  /\ (~game.analogUpPressed /\ ~game.analogDownPressed) =>
                   /\ \A in \in StickFrames("S_DOWN") :
                          After(in).selectedMenuItem = (sel + 1) % n
                   /\ \A in \in StickFrames("S_UP") :
                          After(in).selectedMenuItem = (sel - 1 + n) % n
            /\ game.analogDownPressed =>
                   \A in \in StickFrames("S_DOWN") : After(in).selectedMenuItem = sel
            /\ game.analogUpPressed =>
                   \A in \in StickFrames("S_UP") : After(in).selectedMenuItem = sel

\* keyboard or mouse activity among the signals of a frame
KeyboardMouseActivity(in) == in.atoms \cap (KeyAtoms \cup MouseAtoms) # {}

\* an axis-motion or button-down event of the open controller
ControllerEvent(in) == game.controller /\ in.atoms \cap EventAtoms # {}

\* C15, as stated: a frame with a controller event ends in Controller
\* mode, and a frame with keyboard or mouse activity and no controller
\* event ends in KeyboardMouse mode
ControllerEventWins ==
    pc = "running" =>
        \A in \in PadFrames :
            /\ ControllerEvent(in) => After(in).currentInputMode = "CONTROLLER"
            /\ (KeyboardMouseActivity(in) /\ ~ControllerEvent(in)) =>
                   After(in).currentInputMode = "KEYBOARD_MOUSE"

\* C16: a frame ends in the mode CheckInputMode leaves, and a frame with
\* no controller event and no keyboard or mouse activity ends in the mode
\* it began in
InputModeSticky ==
    pc = "running" =>
        \A in \in PadFrames :
            /\ After(in).currentInputMode = CheckInputMode(World, in).currentInputMode
            /\ (in.atoms \cap EventAtoms = {} /\ ~KeyboardMouseActivity(in)) =>
                   After(in).currentInputMode = game.currentInputMode

\* a first run has switched to Controller on an event; a frame in which
\* the A button is down, with no event, starts the game in that mode
InputModeStickyWitness ==
    /\ pc = "running" /\ sys.file = NoFile /\ obs.frames >= 1
    /\ game.controller /\ game.currentInputMode = "CONTROLLER"
    /\ game.currentState = "MENU" /\ game.selectedMenuItem = 0
    /\ FrameWith({"P_A"}).currentInputMode = "CONTROLLER"
    /\ FrameWith({"P_A"}).currentState = "PLAYING"

---------------------------------------------------------------------------
(* Properties of the volume (main.cpp:505-521, 530-548, 626-645)           *)

\* the volume is a multiple of 0.05 within [0,1]
OnGrid(v) == v % VolumeStep = 0 /\ 0 <= v /\ v <= FP

\* C17: after a frame that has adjusted the volume the volume is a
\* multiple of 0.05 within [0,1], whatever it was before; a frame that
\* has not adjusted it leaves it as it is, so it is such a multiple after
\* any sequence of adjustments; and a frame whose one adjustment is an
\* increase at 1.0, or a decrease at 0.0, leaves it at the bound
VolumeOnGrid ==
    /\ obs.adjusts # <<>> => OnGrid(game.volume)
    /\ pc = "running" =>
           \A in \in VolumeFrames : \A a \in {After(in)} :
               /\ a.adjusts # <<>> => OnGrid(a.volume)
               /\ a.adjusts = <<>> => a.volume = game.volume
               /\ (game.volume = FP /\ a.adjusts = <<VolumeStep>>) => a.volume = FP
               /\ (game.volume = 0 /\ a.adjusts = <<-VolumeStep>>) => a.volume = 0

\* a run that began with 0.325 in the save file: the third frame, the
\* first that can adjust, was a decrease, and the volume is 0.25
VolumeOnGridWitness ==
    /\ FrameFrom("SETTINGS") /\ obs.adjusts = <<-VolumeStep>>
    /\ game.volume = 5 * VolumeStep /\ sys.masterVolume = 5 * VolumeStep
    /\ obs.frames = 3

\* C18, as stated: a frame changes the volume by the steps of 0.05 its
\* adjustments ask for, each clamped to [0,1]; it calls SaveGame once per
\* adjustment (and once more per menu entry that saves), every call
\* writes the file if the file opens, and the record saved last holds the
\* new volume, which is also the volume of the audio output
AdjustmentStepsAndSaves ==
    pc = "running" =>
        \A in \in VolumeFrames : \A a \in {After(in)} :
            LET n == Len(a.adjusts)
                stepped[k \in 0 .. n] ==
                    IF k = 0 THEN game.volume
                    ELSE Clamp(stepped[k - 1] + a.adjusts[k], 0, FP)
            IN  /\ \A k \in DOMAIN a.adjusts : a.adjusts[k] \in {VolumeStep, -VolumeStep}
                /\ a.volume = stepped[n]
                /\ a.saves >= n
                /\ a.acts = <<>> => a.saves = n
                /\ a.writes = IF FileOpens(in) THEN a.saves ELSE 0
                /\ n > 0 =>
                       /\ a.saveData.volume = a.volume
                       /\ a.masterVolume = a.volume
                       /\ FileOpens(in) => a.file.exists /\ a.file.data.volume = a.volume

\* C18: a frame that begins with the volume at a multiple of 0.05 changes
\* it by the steps of 0.05 its adjustments ask for, each clamped to [0,1];
\* a frame that begins with another volume and adjusts it ends at a
\* multiple of 0.05 no more than half a step from there; the frame calls
\* SaveGame once per adjustment (and once more per menu entry that
\* saves), every call writes the file if the file opens, and the record
\* saved last holds the new volume, which is also the volume of the audio
\* output; so three increases from 0.5 give 0.65, with three writes
AdjustmentSnapsAndSaves ==
    pc = "running" =>
        \A in \in VolumeFrames : \A a \in {After(in)} :
               LET n == Len(a.adjusts)
                   stepped[k \in 0 .. n] ==
                       IF k = 0 THEN game.volume
                       ELSE Clamp(stepped[k - 1] + a.adjusts[k], 0, FP)
               IN  /\ \A k \in DOMAIN a.adjusts : a.adjusts[k] \in {VolumeStep, -VolumeStep}
                   /\ OnGrid(game.volume) => a.volume = stepped[n]
                   /\ n > 0 => /\ OnGrid(a.volume)
                               /\ 2 * Abs(a.volume - stepped[n]) <= VolumeStep
                   /\ a.saves >= n
                   /\ a.acts = <<>> => a.saves = n
                   /\ a.writes = IF FileOpens(in) THEN a.saves ELSE 0
                   /\ n > 0 =>
                          /\ a.saveData.volume = a.volume
                          /\ a.masterVolume = a.volume
                          /\ FileOpens(in) => a.file.exists /\ a.file.data.volume = a.volume

\* a first run (fullscreen, volume 0.5) has reached 0.65 by an increase
\* whose save was written
AdjustmentSnapsAndSavesWitness ==
    /\ FrameFrom("SETTINGS") /\ obs.adjusts = <<VolumeStep>>
    /\ obs.saves = 1 /\ obs.writes = 1
    /\ game.isFullscreen /\ game.volume = 13 * VolumeStep
    /\ sys.file.exists /\ sys.file.data.volume = 13 * VolumeStep

---------------------------------------------------------------------------
(* Properties of the player's position and of the save record             *)
(* (main.cpp:251-274, 303-316, 746-758)                                    *)

\* the side of the player's square: 3% of the window's width
PlayerSize == sys.screen[1] * (FP \div 100) * 3

\* the last step moved the player (a frame of Playing) or restored it from
\* the save (the constructor, "Start Game", "Toggle Fullscreen" once its
\* wait for the window is over)
MovedOrRestored ==
    \/ obs.frames = 0
    \/ FrameFrom("PLAYING")
    \/ Activated("Start Game")
    \/ (Activated("Toggle Fullscreen") /\ pc # "waiting")

InUnit(v) == 0 <= v /\ v <= FP

\* C20: after a step that saved, the record holds the player's position
\* divided by the window's width and height and clamped to [0,1], and the
\* fullscreen flag, the frame rate, the input mode and the volume of the
\* moment; the file holds that record if it was written; and the
\* position of every record, in memory and in the file, is within [0,1]
SaveRecordsState ==
    /\ obs.saves >= 1 =>
           /\ game.saveData.playerPos =
                  <<Clamp(DivRound(game.playerPos[1], sys.screen[1]), 0, FP),
                    Clamp(DivRound(game.playerPos[2], sys.screen[2]), 0, FP)>>
           /\ game.saveData.isFullscreen = game.isFullscreen
           /\ game.saveData.targetFPS = game.targetFPS
           /\ game.saveData.inputMode = game.currentInputMode
           /\ game.saveData.volume = game.volume
    /\ obs.writes >= 1 => sys.file = [exists |-> TRUE, data |-> game.saveData]
    /\ \A k \in {1, 2} : /\ InUnit(game.saveData.playerPos[k])
                          /\ InUnit(sys.file.data.playerPos[k])

\* "Save Game" of the pause list has written a record with the player
\* moved to the right of the middle of the fullscreen window
SaveRecordsStateWitness ==
    /\ FrameFrom("PAUSED") /\ Activated("Save Game")
    /\ obs.saves = 1 /\ obs.writes = 1 /\ sys.screen = Monitor
    /\ game.saveData.playerPos[1] > FP \div 2
    /\ game.saveData.playerPos[1] = DivRound(game.playerPos[1], MonitorW)
    /\ sys.file.data = game.saveData

---------------------------------------------------------------------------
(* Properties of persistence (main.cpp:35, 192-211, 251-316)               *)

\* C21: a position that SetPlayerPositionFromSave has just produced (in
\* the constructor, by "Start Game" or by "Toggle Fullscreen" once its wait
\* for the window is over) comes back
\* from SaveGame, LoadGame and SetPlayerPositionFromSave in the same
\* window, each coordinate within the rounding of one stored fraction
RoundTripRestores ==
    (\/ obs.frames = 0
     \/ Activated("Start Game")
     \/ (Activated("Toggle Fullscreen") /\ pc # "waiting")) =>
        LET r == SetPlayerPositionFromSave(LoadGame(SaveGame(World, TRUE)))
        IN  /\ r.screen = sys.screen
            /\ \A k \in {1, 2} :
                   Abs(r.playerPos[k] - game.playerPos[k]) <= sys.screen[k]

\* the corner of the fullscreen window, restored in the 1280x720 window
\* after a toggle and clamped there, comes back from the cycle
RoundTripRestoresWitness ==
    /\ Activated("Toggle Fullscreen") /\ sys.screen = Windowed
    /\ game.playerPos = <<WindowedW * FP - PlayerSize, WindowedH * FP - PlayerSize>>
    /\ game.saveData.playerPos = CornerSave.playerPos
    /\ SetPlayerPositionFromSave(LoadGame(SaveGame(World, TRUE))).playerPos
           = game.playerPos
\* C22: the program that started without a save file it can open is in
\* Menu with the built-in defaults in every field of the record and in
\* the fields loaded from it, the player at 10% of the window, no fault
LoadKeepsDefaults ==
    (pc = "running" /\ obs.frames = 0 /\ ~sys.file.exists) =>
        /\ game.saveData = [playerPos |-> <<FP \div 10, FP \div 10>>,
                            isFullscreen |-> TRUE, targetFPS |-> 120,
                            inputMode |-> "KEYBOARD_MOUSE", volume |-> FP \div 2]
        /\ game.isFullscreen /\ game.targetFPS = 120
        /\ game.currentInputMode = "KEYBOARD_MOUSE"
        /\ game.volume = FP \div 2 /\ sys.masterVolume = FP \div 2
        /\ game.playerPos = <<(MonitorW \div 10) * FP, (MonitorH \div 10) * FP>>
        /\ game.currentState = "MENU" /\ ~game.shouldExit /\ ~obs.crashed

\* the program has started beside a save file that cannot be opened
LoadKeepsDefaultsWitness ==
    /\ pc = "running" /\ obs.frames = 0 /\ sys.file = UnreadableFile
    /\ game.currentState = "MENU" /\ game.saveData.inputMode = "KEYBOARD_MOUSE"
    /\ game.isFullscreen /\ sys.screen = Monitor
\* C23: SaveGame with a file that does not open changes the record in
\* memory and nothing else: not the confirmation, the application state,
\* the exit flag or the file.  A frame whose write fails calls SaveGame as
\* often, and ends in the same application state with the same exit flag,
\* as the same frame with a file that opens, and its confirmation is as
\* the popup timer of the frame left it.  A frame that saves to a file
\* that opens ends with the confirmation visible for its full 2 seconds
SaveFailureIsSilent ==
    pc = "running" =>
        /\ LET f == SaveGame(World, FALSE)
           IN  \A fld \in DOMAIN World \ {"saveData", "saves"} : f[fld] = World[fld]
        /\ \A in \in FlowFrames : \A a \in {After(in)} :
              /\ (a.saves >= 1 /\ "X_WFAIL" \in in.atoms) =>
                     \A ok \in {After([in EXCEPT !.atoms = @ \ {"X_WFAIL"}])},
                        timed \in {UpdatePopup(World, in)} :
                         /\ a.writes = 0 /\ a.file = sys.file
                         /\ a.showSavePopup = timed.showSavePopup
                         /\ a.savePopupTimer = timed.savePopupTimer
                         /\ a.currentState = ok.currentState
                         /\ a.shouldExit = ok.shouldExit
                         /\ a.saves = ok.saves /\ ~a.crashed
              /\ (a.saves >= 1 /\ "X_WFAIL" \notin in.atoms) =>
                     /\ a.writes = a.saves /\ a.file.exists
                     /\ a.showSavePopup /\ a.savePopupTimer = 2 * FP

\* "Save Game" of the main menu was activated in a first run and the file
\* did not open: no file, no confirmation, still in Menu
SaveFailureIsSilentWitness ==
    /\ pc = "running" /\ FrameFrom("MENU") /\ Activated("Save Game")
    /\ obs.saves = 1 /\ obs.writes = 0 /\ ~sys.file.exists
    /\ ~game.showSavePopup /\ game.currentState = "MENU" /\ ~game.shouldExit

---------------------------------------------------------------------------
(* Properties of the frame's effect (main.cpp:321-332, 437-450, 575-578,   *)
(* 716-758)                                                                *)

\* C24: with no controller, a frame leaves every field of the Game object
\* as the same frame without its pad buttons, stick and controller events
\* leaves it (so the application state, the selection, the volume and the
\* player follow the keyboard and the mouse only), no tracker changes,
\* and the mode is Controller after the frame only if it was before
ControllerPathsInert ==
    (pc = "running" /\ ~game.controller) =>
        \A in \in PadFrames :
            LET a == After(in)
                km == After([in EXCEPT !.atoms =
                                @ \ (PadAtoms \cup StickAtoms \cup EventAtoms)])
            IN  /\ Restrict(a, GameFields) = Restrict(km, GameFields)
                /\ \A f \in Trackers : a[f] = game[f]
                /\ a.currentInputMode = "CONTROLLER" =>
                       game.currentInputMode = "CONTROLLER"

\* in Playing without a controller, Start with its button-down event does
\* not pause and Escape does
ControllerPathsInertWitness ==
    /\ pc = "running" /\ ~game.controller /\ obs.frames >= 1
    /\ game.currentState = "PLAYING" /\ game.currentInputMode = "KEYBOARD_MOUSE"
    /\ FrameWith({"P_START", "E_BUTTON"}).currentState = "PLAYING"
    /\ FrameWith({"P_START", "E_BUTTON"}).currentInputMode = "KEYBOARD_MOUSE"
    /\ FrameWith({"K_ESC"}).currentState = "PAUSED"
\* the record after one more frame from s in which the pointer arrives at
\* the centre of entry i of the list, as the frame lays it out, and the
\* left button is pressed
Click(s, list, i) ==
    LET dims == IF s.pendingFullscreenResize /\ s.fullscreenResizeFrames > 0
                THEN Monitor ELSE s.screen
        point == Centre(Bounds(dims, list, i))
    IN  Update([s EXCEPT !.mouse = point, !.frames = @ + 1],
               [atoms |-> {"M_MOVE", "M_LEFT"}, mouse |-> point, late |-> point,
                dt |-> FrameMillis])

\* C25, as stated: from Playing, the frames Escape (Paused), key M or a
\* click on "Main Menu" (Menu), a click on "Settings", a click on "Toggle
\* Fullscreen", Escape or a click on "Back to Menu" (Menu) and a click on
\* "Start Game" (Playing) leave the stored fraction, and the fraction of
\* the window the player is at, equal to the fraction the player was at
\* when Playing was left, within the rounding of one stored fraction
ToggleKeepsRelativePosition ==
    (pc = "running" /\ game.currentState = "PLAYING") =>
        \A leave \in {"key", "entry"}, back \in {"key", "entry"} :
            LET s1 == Step(World, {"K_ESC"})
                s2 == IF leave = "key" THEN Step(s1, {"K_M"}) ELSE Click(s1, "pause", 2)
                s3 == Click(s2, "main", 1)
                s4 == Click(s3, "settings", 1)
                s5 == IF back = "key" THEN Step(s4, {"K_ESC"})
                      ELSE Click(s4, "settings", 2)
                s6 == Click(s5, "main", 0)
            IN  (/\ s1.currentState = "PAUSED" /\ s2.currentState = "MENU"
                 /\ s3.currentState = "SETTINGS" /\ s4.currentState = "SETTINGS"
                 /\ s4.isFullscreen # s3.isFullscreen
                 /\ s5.currentState = "MENU" /\ s6.currentState = "PLAYING") =>
                    \A k \in {1, 2} :
                        LET left == RelativeOf(s1.playerPos[k], s1.screen[k])
                        IN  /\ Abs(s6.saveData.playerPos[k] - left) <= 1
                            /\ Abs(RelativeOf(s6.playerPos[k], s6.screen[k]) - left) <= 1
\* C26: a frame that starts in Menu, Settings or Paused leaves the player
\* where it is, whatever keys are down, unless it activates "Start Game"
\* or "Toggle Fullscreen", and then the player is at the stored position
\* scaled to the window
MotionInPlayingOnly ==
    (pc = "running" /\ game.currentState # "PLAYING") =>
        \A in \in WindowFrames :
            LET a == After(in)
            IN  a.playerPos =
                    IF \/ ActivatedIn(a, "Start Game")
                       \/ ActivatedIn(a, "Toggle Fullscreen")
                    THEN RestoredIn(a) ELSE game.playerPos

\* the player has moved away from the stored position and the game is
\* paused: the right and down keys pressed there do not move the player
MotionInPlayingOnlyWitness ==
    /\ pc = "running" /\ game.currentState = "PAUSED"
    /\ game.playerPos # RestoredPosition
    /\ FrameWith({"K_RIGHT", "K_DOWN"}).playerPos = game.playerPos
    /\ FrameWith({"K_RIGHT", "K_DOWN"}).currentState = "PAUSED"

---------------------------------------------------------------------------
(* Properties of the menus (main.cpp:341-368, 477-574, 614-624, 781-806)   *)

\* C27, as stated: in a frame of Menu, Settings or Paused with Enter in
\* KeyboardMouse mode, or with a newly pressed A in Controller mode, the
\* selection after the frame is an entry of the list, that entry is
\* activated, and nothing else is
ActivationTakesSelected ==
    (pc = "running" /\ game.currentState \in {"MENU", "SETTINGS", "PAUSED"}) =>
        \A in \in FlowFrames :
            LET a == After(in)
                list == ListOf(game.currentState)
                mode == CheckInputMode(World, in).currentInputMode
                asked == IF mode = "KEYBOARD_MOUSE" THEN IsKeyPressed(in, "K_ENTER")
                         ELSE /\ game.controller /\ Button(in, "P_A")
                              /\ ~game.aButtonPressed
            IN  asked =>
                    /\ a.selectedMenuItem < Size(list)
                    /\ Len(a.acts) = 1
                    /\ a.acts[1][2] = Text(list, a.selectedMenuItem)

\* C28, as stated: in KEYBOARD_MOUSE mode a left click on an entry that is
\* marked hovered calls HandleMenuClick with that entry's text, and with
\* no other, whatever selectedMenuItem is (before and after), and
\* keyboardControllerNavigationUsed is false when the frame ends
ClickActivatesHovered ==
    (pc = "running" /\ game.currentState \in {"MENU", "SETTINGS", "PAUSED"}) =>
        \A in \in MenuFrames : \A a \in {After(in)} :
            "M_LEFT" \in in.atoms =>
                \A i \in a.isHovered[ListOf(game.currentState)] :
                    /\ a.currentInputMode = "KEYBOARD_MOUSE"
                    /\ Len(a.acts) = 1
                    /\ a.acts[1][2] = Text(ListOf(game.currentState), i)
                    /\ ~a.keyboardControllerNavigationUsed

\* C28: the same of every frame that reaches the hover loop, that is,
\* every frame but one of Settings that returns to the main menu at
\* main.cpp:464-474 (it keeps the marks of the frame before, or has
\* none after a rebuild, and calls HandleMenuClick for no entry)
ClickActivatesHoveredInLoop ==
    (pc = "running" /\ game.currentState \in {"MENU", "SETTINGS", "PAUSED"}) =>
        \A in \in MenuFrames : \A a \in {After(in)} :
            LET list == ListOf(game.currentState)
                returned == /\ game.currentState = "SETTINGS"
                            /\ a.fired \cap {"ESC", "BACK", "B"} # {}
            IN  /\ ("M_LEFT" \in in.atoms /\ ~returned) =>
                       \A i \in a.isHovered[list] :
                           /\ a.currentInputMode = "KEYBOARD_MOUSE"
                           /\ Len(a.acts) = 1
                           /\ a.acts[1][2] = Text(list, i)
                           /\ ~a.keyboardControllerNavigationUsed
                /\ returned =>
                       /\ a.acts = <<>>
                       /\ a.isHovered \in {game.isHovered, [l \in Lists |-> {}]}
                       /\ a.currentState = "MENU"

\* a click on the hovered "Settings" while the selection, moved with the
\* Down key and left where it was by the pointer, is on "Save Game"
ClickActivatesHoveredWitness ==
    /\ FrameFrom("MENU") /\ game.currentState = "SETTINGS"
    /\ obs.acts = << <<"MENU", "Settings">> >>
    /\ game.selectedMenuItem = 2 /\ game.isHovered["main"] = {1}
    /\ ~game.keyboardControllerNavigationUsed /\ ~sys.cursorHidden

\* C29: when CheckInputMode changes the mode, the pointer is hidden on
\* entering CONTROLLER (the navigation flag is left alone), and on entering
\* KEYBOARD_MOUSE it is shown and the navigation flag is cleared; and in
\* every frame whose mode is KEYBOARD_MOUSE and whose mouse delta is not
\* zero, the pointer is shown and the flag is false when CheckInputMode
\* returns, whatever they were before
ArbiterSetsPointer ==
    pc = "running" =>
        \A in \in PadFrames :
            LET c == CheckInputMode(World, in)
                changed == c.currentInputMode # game.currentInputMode
            IN  /\ (changed /\ c.currentInputMode = "CONTROLLER") =>
                       /\ c.cursorHidden
                       /\ c.keyboardControllerNavigationUsed
                              = game.keyboardControllerNavigationUsed
                /\ (changed /\ c.currentInputMode = "KEYBOARD_MOUSE") =>
                       ~c.cursorHidden /\ ~c.keyboardControllerNavigationUsed
                /\ (c.currentInputMode = "KEYBOARD_MOUSE" /\ MouseMoving(in)) =>
                       ~c.cursorHidden /\ ~c.keyboardControllerNavigationUsed
                /\ After(in).currentInputMode = c.currentInputMode
                /\ After(in).cursorHidden = c.cursorHidden

\* the pointer was hidden on entering CONTROLLER in the main menu, whose
\* update set the flag; moving the mouse now brings it back and clears
\* the flag
ArbiterSetsPointerWitness ==
    /\ pc = "running" /\ obs.frames > 0 /\ game.controller
    /\ game.currentInputMode = "CONTROLLER" /\ sys.cursorHidden
    /\ game.keyboardControllerNavigationUsed
    /\ \E in \in PadFrames :
          /\ in.atoms = {"M_MOVE"}
          /\ LET c == CheckInputMode(World, in)
             IN  /\ c.currentInputMode = "KEYBOARD_MOUSE"
                 /\ ~c.cursorHidden /\ ~c.keyboardControllerNavigationUsed

\* C30, as stated: in KEYBOARD_MOUSE mode, when a frame of UpdateMenu or
\* UpdatePaused ends, an entry of the list is marked hovered if and only
\* if the pointer the frame read is inside its bounds and
\* keyboardControllerNavigationUsed was false at the test of
\* main.cpp:497 / 801, that is, it was false when CheckInputMode returned
\* and no navigation key is pressed in the frame
HoverSuppressedByNavigation ==
    (pc = "running" /\ game.currentState \in {"MENU", "SETTINGS", "PAUSED"}) =>
        \A in \in MenuFrames : \A a \in {After(in)} : \A c \in {CheckInputMode(World, in)} :
            c.currentInputMode = "KEYBOARD_MOUSE" =>
                \A i \in 0 .. Size(ListOf(game.currentState)) - 1 :
                    i \in a.isHovered[ListOf(game.currentState)]
                        <=> /\ CheckCollisionPointRec(in.mouse,
                                    Bounds(a.menuDims, ListOf(game.currentState), i))
                            /\ ~(c.keyboardControllerNavigationUsed \/ KeyboardUsed(in))

\* C30: the same of every frame that reaches the test, that is, every
\* frame but one of Settings that returns to the main menu at
\* main.cpp:464-474, which evaluates no hover and keeps the marks of the
\* frame before, or has none after a rebuild
HoverSuppressedInLoop ==
    (pc = "running" /\ game.currentState \in {"MENU", "SETTINGS", "PAUSED"}) =>
        \A in \in MenuFrames : \A a \in {After(in)} : \A c \in {CheckInputMode(World, in)} :
            LET list == ListOf(game.currentState)
                returned == /\ game.currentState = "SETTINGS"
                            /\ a.fired \cap {"ESC", "BACK", "B"} # {}
                flagAtTest == c.keyboardControllerNavigationUsed \/ KeyboardUsed(in)
            IN  /\ (c.currentInputMode = "KEYBOARD_MOUSE" /\ ~returned) =>
                       \A i \in 0 .. Size(list) - 1 :
                           i \in a.isHovered[list]
                               <=> /\ CheckCollisionPointRec(in.mouse,
                                                             Bounds(a.menuDims, list, i))
                                   /\ ~flagAtTest
                /\ returned => a.isHovered \in {game.isHovered, [l \in Lists |-> {}]}

\* the pointer rests on "Settings" and the Down key was pressed: no entry
\* of the main menu is hovered, and "Save Game" is selected
HoverSuppressedByNavigationWitness ==
    /\ FrameFrom("MENU") /\ game.currentState = "MENU"
    /\ game.currentInputMode = "KEYBOARD_MOUSE"
    /\ game.keyboardControllerNavigationUsed
    /\ CheckCollisionPointRec(sys.mouse, Bounds(game.menuDims, "main", 1))
    /\ game.isHovered["main"] = {} /\ game.isSelected["main"] = {2}

---------------------------------------------------------------------------
(* Properties of the controller branch, the layout and the popup          *)
(* (main.cpp:413-435, 453-462, 575-583, 772-779, 840-847)                 *)

\* C31, as stated: at the end of every frame of UpdateMenu or UpdatePaused
\* whose mode, after CheckInputMode, is CONTROLLER, the navigation flag is
\* set and no entry of the list is hovered
ControllerFrameSetsFlag ==
    (pc = "running" /\ game.currentState \in {"MENU", "SETTINGS", "PAUSED"}) =>
        \A in \in Inputs(PadInputs \cup {{"E_BUTTON", "P_BACK"}}, PadPoints) :
            LET a == After(in)
            IN  CheckInputMode(World, in).currentInputMode = "CONTROLLER" =>
                    /\ a.keyboardControllerNavigationUsed
                    /\ a.isHovered[ListOf(game.currentState)] = {}

\* C31, amended: the same for the frames that run the controller branch
\* with a controller open (main.cpp:577, 841), that is, all but the frames
\* without a controller and the frames of Settings that return to the main
\* menu at main.cpp:464-474 (among them Back together with its event)
ControllerBranchSetsFlag ==
    (pc = "running" /\ game.currentState \in {"MENU", "SETTINGS", "PAUSED"}) =>
        \A in \in Inputs(PadInputs \cup {{"E_BUTTON", "P_BACK"}}, PadPoints) :
            LET a == After(in)
                returned == /\ game.currentState = "SETTINGS"
                            /\ a.fired \cap {"ESC", "BACK", "B"} # {}
            IN  ( /\ CheckInputMode(World, in).currentInputMode = "CONTROLLER"
                  /\ game.controller /\ ~returned ) =>
                    /\ a.keyboardControllerNavigationUsed
                    /\ a.isHovered[ListOf(game.currentState)] = {}

\* the pointer rests on "Settings", and a frame of the main menu in
\* CONTROLLER mode has set the flag and left no entry hovered
ControllerBranchSetsFlagWitness ==
    /\ FrameFrom("MENU") /\ game.currentState = "MENU" /\ game.controller
    /\ game.currentInputMode = "CONTROLLER"
    /\ CheckCollisionPointRec(sys.mouse, Bounds(game.menuDims, "main", 1))
    /\ game.keyboardControllerNavigationUsed /\ game.isHovered["main"] = {}

\* every frame of UpdateMenu or UpdatePaused lays the lists out for the
\* size the window has in that frame (after the forced resize of Update,
\* in effect or not) before it reads navigation or activation: the layout
\* and the remembered size at the end of the frame are for that size, a
\* rebuild is asked for only by a toggle of that frame, and a click at
\* the centre that size gives to an entry of the list activates that
\* entry and no other
LayoutRebuilt ==
    (pc = "running" /\ game.currentState \in {"MENU", "SETTINGS", "PAUSED"}) =>
        LET list == ListOf(game.currentState)
            sized(in) == ForceFullscreenResize(World, in).screen
            fits(a, dims) ==
                /\ a.menuDims = dims
                /\ <<a.lastWindowWidth, a.lastWindowHeight>> = dims
                /\ a.forceMenuRecalc => ActivatedIn(a, "Toggle Fullscreen")
        IN  /\ \A in \in MenuFrames \cup WindowFrames :
                  \A a \in {After(in)} : fits(a, sized(in))
            /\ \A late \in SUBSET {"X_NORESIZE"}, i \in 0 .. Size(list) - 1 :
                  LET dims == sized([atoms |-> late])
                      in == [atoms |-> {"M_MOVE", "M_LEFT"} \cup late,
                             mouse |-> Centre(Bounds(dims, list, i)),
                             late |-> Centre(Bounds(dims, list, i)),
                             dt |-> FrameMillis]
                  IN  \A a \in {After(in)} :
                          /\ fits(a, dims)
                          /\ a.acts = << <<game.currentState, Text(list, i)>> >>

\* C32, as stated: the lists are laid out for the window's size before a
\* frame reads navigation or activation, and no entry is ever tested
\* against bounds that were laid out for another size than the window has
LayoutFollowsWindow ==
    /\ LayoutRebuilt
    /\ "OLDSIZE" \notin obs.fired

\* C32: the lists are laid out for the window's size before a frame reads
\* navigation or activation; an entry is tested against bounds of another
\* size only in the rest of a frame whose click has activated "Toggle
\* Fullscreen" (the layout follows in the next frame), and that frame
\* activates nothing else
LayoutFollowsWindowBetweenFrames ==
    /\ LayoutRebuilt
    /\ "OLDSIZE" \in obs.fired =>
           /\ FrameFrom("SETTINGS")
           /\ obs.acts = << <<"SETTINGS", "Toggle Fullscreen">> >>
           /\ game.forceMenuRecalc /\ game.menuDims # sys.screen

\* a click on "Toggle Fullscreen" has just made the window 1280x720, "Back
\* to Menu" was then tested against the bounds for the monitor, and the
\* lists are still laid out for it: a click where the window now shows
\* "Back to Menu" is taken by a layout for 1280x720
LayoutFollowsWindowWitness ==
    /\ FrameFrom("SETTINGS") /\ game.currentState = "SETTINGS"
    /\ "OLDSIZE" \in obs.fired
    /\ game.forceMenuRecalc /\ game.menuDims = Monitor /\ sys.screen = Windowed
    /\ Click(World, "settings", 2).menuDims = Windowed
    /\ Click(World, "settings", 2).currentState = "MENU"

\* C33: a save whose write succeeds shows the popup with a timer of two
\* seconds; in every frame without such a save a popup that is shown
\* loses the frame time and is hidden in that frame exactly if nothing is
\* left, and a popup that is hidden stays hidden; so a popup that is
\* shown is hidden again, unless a write succeeds or the run ends first,
\* within the frames that two seconds take
PopupTimeLimited ==
    /\ [](/\ game.showSavePopup =>
                (0 < game.savePopupTimer /\ game.savePopupTimer <= 2 * FP)
          /\ pc = "running" =>
                \A in \in PopupFrames :
                    LET a == After(in)
                        left == game.savePopupTimer - in.dt * (FP \div 1000)
                    IN  /\ a.writes > 0 =>
                              (a.showSavePopup /\ a.savePopupTimer = 2 * FP)
                        /\ (a.writes = 0 /\ game.showSavePopup) =>
                              /\ a.savePopupTimer = left
                              /\ a.showSavePopup = (left > 0)
                        /\ (a.writes = 0 /\ ~game.showSavePopup) =>
                              /\ ~a.showSavePopup
                              /\ a.savePopupTimer = game.savePopupTimer)
    /\ ( /\ pc = "running" /\ game.showSavePopup
         /\ obs.frames + (2000 + PopupMillis - 1) \div PopupMillis <= MaxPopupFrames )
           ~> (~game.showSavePopup \/ obs.writes > 0 \/ pc # "running")

\* "Save Game" wrote the file, the popup was shown, and three frames
\* later, of one second, a half and a half, it is hidden with nothing left
PopupTimeLimitedWitness ==
    /\ pc = "running" /\ sys.file.exists /\ game.currentState = "MENU"
    /\ ~game.showSavePopup /\ game.savePopupTimer = 0
    /\ obs.writes = 0 /\ obs.frames = 6

\* C34: pendingFullscreenResize is true exactly while
\* fullscreenResizeFrames is in 1..10; a frame that begins pending and
\* toggles nothing to fullscreen leaves one frame less, a frame that
\* toggles to fullscreen leaves the ten of the toggle less none, and a
\* frame that begins with nothing pending and toggles nothing to
\* fullscreen ends with nothing pending: ten frames after the toggle the
\* flag is false unless a later toggle set it again
ResizeCountsDown ==
    /\ game.pendingFullscreenResize <=> game.fullscreenResizeFrames \in 1 .. ResizeFrames
    /\ game.fullscreenResizeFrames \in 0 .. ResizeFrames
    /\ pc = "running" =>
          \A in \in Inputs(ResizeInputs, {}) :
              LET a == After(in)
                  set == ActivatedIn(a, "Toggle Fullscreen") /\ a.isFullscreen
              IN  a.fullscreenResizeFrames =
                      IF set THEN ResizeFrames
                      ELSE IF game.pendingFullscreenResize
                           THEN game.fullscreenResizeFrames - 1 ELSE 0

\* the toggle to fullscreen was in frame 3 or 4 of a run that began
\* windowed; after frame 14 nothing is pending and the window has the monitor's size
ResizeCountsDownWitness ==
    /\ pc = "running" /\ obs.frames = 14 /\ obs.toggles = 1 /\ game.isFullscreen
    /\ game.saveData.isFullscreen = FALSE
    /\ "FORCED" \in obs.fired
    /\ ~game.pendingFullscreenResize /\ game.fullscreenResizeFrames = 0
    /\ sys.screen = Monitor

\* C35, as stated: a frame whose Update forces the window to the
\* monitor's size begins with isFullscreen true, and so the window keeps
\* the size of its mode
ForcedResizeInFullscreenOnly ==
    /\ (pc = "running" /\ ~game.isFullscreen) => sys.screen = Windowed
    /\ pc = "running" =>
          \A in \in Inputs(ResizeInputs, {}) :
              "FORCED" \in After(in).fired => game.isFullscreen

---------------------------------------------------------------------------
(* Properties of one frame of a list (main.cpp:477-647, 781-883)          *)

\* C36: a frame calls HandleMenuClick at most once, also when a click
\* comes together with Enter, with the A button and its event, or with
\* both: a click on a hovered entry and an activation of the selected
\* entry do not both happen, and a click activates one entry only
AtMostOneActivation ==
    /\ Len(obs.acts) <= 1
    /\ pc = "running" =>
          \A in \in Inputs(MenuInputs \cup {{"M_LEFT", "P_A", "E_BUTTON"},
                                            {"K_ENTER", "P_A", "E_BUTTON"},
                                            {"M_LEFT", "K_ENTER", "P_A", "E_BUTTON"}},
                           FlowPoints) :
              Len(After(in).acts) <= 1

\* the pointer rests on the hovered "Settings" and "Save Game" is the
\* selected entry: a click together with Enter saves and does no more
AtMostOneActivationWitness ==
    /\ pc = "running" /\ game.currentState = "MENU" /\ game.selectedMenuItem = 2
    /\ ~game.keyboardControllerNavigationUsed /\ game.isHovered["main"] = {1}
    /\ CheckCollisionPointRec(sys.mouse, Bounds(game.menuDims, "main", 1))
    /\ FrameWith({"M_LEFT", "K_ENTER"}).acts = << <<"MENU", "Save Game">> >>
    /\ FrameWith({"M_LEFT"}).acts = << <<"MENU", "Settings">> >>

\* C37: in every list, and so in the list of the frame that has just run,
\* at most one entry is marked selected, and no entry is marked hovered
\* while one is marked selected (a frame of Settings that returns at
\* main.cpp:472 keeps the marks of the frame before; they are of this kind
\* as well)
HoverOrSelection ==
    \A list \in Lists :
        /\ Cardinality(game.isSelected[list]) <= 1
        /\ game.isHovered[list] = {} \/ game.isSelected[list] = {}
        /\ game.isSelected[list] \subseteq 0 .. Size(list) - 1

\* the Down key had moved the selection to "Save Game"; the pointer then
\* moved onto "Settings": that entry is hovered and none is selected
HoverOrSelectionWitness ==
    /\ FrameFrom("MENU") /\ game.currentState = "MENU" /\ obs.acts = <<>>
    /\ game.currentInputMode = "KEYBOARD_MOUSE"
    /\ game.selectedMenuItem = 2 /\ ~game.keyboardControllerNavigationUsed
    /\ game.isHovered["main"] = {1} /\ game.isSelected["main"] = {}

---------------------------------------------------------------------------
(* Properties of the Start button and of the volume keys                  *)
(* (main.cpp:94, 530-548, 709-714, 761-766)                               *)

\* C38, as stated: with a controller, when a frame in which Start is not
\* pressed ends in Playing and Start is pressed in the next frame, without
\* Escape, and held, alone, for the frames after it, the first frame of
\* the hold ends in Paused and the following ones stay in Paused
StartHoldPausesOnce ==
    (pc = "running" /\ game.controller) =>
        \A in \in PadFrames :
            LET s0 == After(in)
                h1 == Step(s0, {"P_START"})
                h2 == Step(h1, {"P_START"})
                h3 == Step(h2, {"P_START"})
            IN  ( /\ "P_START" \notin in.atoms
                  /\ s0.currentState = "PLAYING" /\ ~s0.shouldExit ) =>
                    /\ h1.currentState = "PAUSED"
                    /\ h2.currentState = "PAUSED"
                    /\ h3.currentState = "PAUSED"

\* C39, as stated: in Settings, a frame in which Left, A, Right or D is
\* pressed, alone or with Escape, Enter, a click or a read past the end
\* of the list that faults, is a KEYBOARD_MOUSE frame and adjusts the
\* volume and saves if and only if selectedMenuItem is the index of
\* "Volume", whatever the navigation flag and the marks are
VolumeKeysFollowSelection ==
    (pc = "running" /\ game.currentState = "SETTINGS") =>
        \A key \in {"K_LEFT", "K_A", "K_RIGHT", "K_D"},
           with \in SUBSET {"K_ESC", "K_ENTER", "M_LEFT", "X_OOBCRASH"} :
            \A a \in {FrameWith({key} \cup with)} :
                /\ a.currentInputMode = "KEYBOARD_MOUSE"
                /\ (a.adjusts # <<>> /\ a.saves > 0)
                      <=> ( /\ game.selectedMenuItem < Size("settings")
                            /\ Text("settings", game.selectedMenuItem) = "Volume" )

\* C39: the same, provided the frame gets to the test of main.cpp:531
\* with the key still reported as pressed: it has not returned to the
\* main menu on Escape (464-474), and no click of its hover loop has
\* activated "Back to Menu" (the state is Menu by then) or "Toggle
\* Fullscreen" (whose EndDrawing() calls poll the input); the adjustment
\* is then one step in the key's direction
VolumeKeysFollowSelectionAtTest ==
    (pc = "running" /\ game.currentState = "SETTINGS") =>
        \A key \in {"K_LEFT", "K_A", "K_RIGHT", "K_D"},
           with \in SUBSET {"K_ESC", "K_ENTER", "M_LEFT", "X_OOBCRASH"} :
            \A a \in {FrameWith({key} \cup with)} :
                LET designated == /\ game.selectedMenuItem < Size("settings")
                                  /\ Text("settings", game.selectedMenuItem) = "Volume"
                    returned == "ESC" \in a.fired
                    clickedAway == /\ "M_LEFT" \in with /\ "K_ENTER" \notin with
                                   /\ \/ ActivatedIn(a, "Back to Menu")
                                      \/ ActivatedIn(a, "Toggle Fullscreen")
                IN  /\ a.currentInputMode = "KEYBOARD_MOUSE"
                    /\ (a.adjusts # <<>> /\ a.saves > 0)
                          <=> (designated /\ ~returned /\ ~clickedAway)
                    /\ a.adjusts # <<>> =>
                           a.adjusts = <<IF key \in {"K_LEFT", "K_A"}
                                         THEN -VolumeStep ELSE VolumeStep>>

\* "Volume" is the selected index, but after a move of the mouse the
\* navigation flag is clear and no entry is marked selected: Left turns
\* the volume down one step and saves
VolumeKeysFollowSelectionWitness ==
    /\ pc = "running" /\ game.currentState = "SETTINGS"
    /\ game.selectedMenuItem = 0 /\ ~game.keyboardControllerNavigationUsed
    /\ game.isSelected["settings"] = {} /\ game.volume = 10 * VolumeStep
    /\ FrameWith({"K_LEFT"}).adjusts = <<-VolumeStep>>
    /\ FrameWith({"K_LEFT"}).volume = 9 * VolumeStep
    /\ FrameWith({"K_LEFT"}).saves = 1

===========================================================================
